---- MODULE Spec2Model ----
(***************************************************************************)
(* A model of the liveshark-core analysis engine: the DMX state store,     *)
(* the per-source universe aggregator, the conflict detector, the          *)
(* compliance recorder and the analyze_source dispatch loop.               *)
(*                                                                         *)
(* Conventions.  Option<T> is a sequence of length 0 (None) or 1 (Some).   *)
(* A HashMap is a function whose DOMAIN is the set of keys present.  A     *)
(* byte string (payload, DMX image) is a sequence of 0..255, indexed from  *)
(* 1, so byte offset k of the source is index k+1.  A Rust String whose    *)
(* order matters is the sequence of its character codes.  f64 seconds are  *)
(* counted in ticks of 1/TICKS_PER_S second.                               *)
(***************************************************************************)
EXTENDS Integers, Sequences, FiniteSets, TLC

VARIABLES
    states,        \* DmxStateStore.states : DmxStateKey -> [u8; 512]
    dmx_ret,       \* the image returned by the last apply_partial call
    dmx_calls,     \* the apply_partial calls made so far, in order
    parse_ret,     \* None, or Some(the result of a direct decoder call)
    artnet_stats,  \* HashMap<u16, UniverseStats> of the Art-Net frames
    sacn_stats,    \* HashMap<u16, UniverseStats> of the sACN frames
    flow_stats,    \* HashMap<FlowKey, FlowStats>
    dmx_store,     \* DmxStore.frames_by_universe
    compliance,    \* HashMap<String, ComplianceSummary>
    packets_total, \* packets read from the source so far
    first_ts,      \* capture time bounds
    last_ts,
    report,        \* None while the loop runs, then Some(the Report)
    report_rerun,  \* the Report of a second run over the same events
    analysis_error,\* None, or Some(the AnalysisError analyze_source returned)
    last_calls,    \* the decoder and aggregator calls of the last event, in order
    clock,         \* the timestamp of the last event yielded, in ticks
    hist,          \* the frames / packet events consumed so far, in order
    follow,        \* cmd_pcap_follow: its options, locals and return value
    capture,       \* the capture file on disk: its metadata and its content
    report_file    \* None, or Some(the report at the --report path)

callVars == <<dmx_ret, dmx_calls, parse_ret>>
loopVars == <<sacn_stats, flow_stats, dmx_store, compliance, packets_total,
              first_ts, last_ts, last_calls>>
outVars == <<report, report_rerun, analysis_error>>
followVars == <<follow, capture, report_file>>
vars == <<states, dmx_ret, dmx_calls, parse_ret, artnet_stats, sacn_stats, flow_stats,
          dmx_store, compliance, packets_total, first_ts, last_ts, report,
          report_rerun, analysis_error, last_calls, clock, hist, follow, capture,
          report_file>>

----------------------------------------------------------------------------
(* Option<T> *)

None == <<>>
Some(x) == <<x>>
IsSome(o) == o /= <<>>
IsNone(o) == o = <<>>
Unwrap(o) == o[1]

Min(a, b) == IF a < b THEN a ELSE b
Max(a, b) == IF a > b THEN a ELSE b


----------------------------------------------------------------------------
(* Strings as sequences of character codes *)

RECURSIVE Concat(_)
Concat(parts) ==
    IF parts = << >> THEN << >> ELSE Head(parts) \o Concat(Tail(parts))

\* Decimal rendering of a natural number ({} of an unsigned integer).
RECURSIVE FormatDec(_)
FormatDec(n) ==
    IF n < 10 THEN << 48 + n >> ELSE FormatDec(n \div 10) \o << 48 + (n % 10) >>

\* Ord for String / Vec<u8>: lexicographic, a proper prefix is smaller.
RECURSIVE StrLess(_, _)
StrLess(a, b) ==
    IF b = << >> THEN FALSE
    ELSE IF a = << >> THEN TRUE
    ELSE IF Head(a) /= Head(b) THEN Head(a) < Head(b)
    ELSE StrLess(Tail(a), Tail(b))

StrLeq(a, b) == ~StrLess(b, a)

CH_COLON == << 58 >>
CH_COMMA == << 44 >>
CH_DOT == << 46 >>
STR_ARTNET == << 97, 114, 116, 110, 101, 116 >>
STR_SACN == << 115, 97, 99, 110 >>
STR_CID == << 99, 105, 100 >>

\* Display of an IpAddr::V4: the four octets in decimal, dot separated.
FormatIp(ip) ==
    Concat(<< FormatDec(ip[1]), CH_DOT, FormatDec(ip[2]), CH_DOT,
              FormatDec(ip[3]), CH_DOT, FormatDec(ip[4]) >>)

\* sources.join(",")
RECURSIVE Join(_, _)
Join(parts, sep) ==
    IF parts = << >> THEN << >>
    ELSE IF Len(parts) = 1 THEN parts[1]
    ELSE parts[1] \o sep \o Join(Tail(parts), sep)

----------------------------------------------------------------------------
(* Vec::sort_by (a stable sort) and HashMap iteration *)

\* Insert x after every element whose key is not greater (stable).
RECURSIVE InsertByKey(_, _)
InsertByKey(sorted, x) ==
    IF sorted = << >> THEN << x >>
    ELSE IF StrLess(x[1], Head(sorted)[1]) THEN << x >> \o sorted
    ELSE << Head(sorted) >> \o InsertByKey(Tail(sorted), x)

RECURSIVE SortPairs(_, _)
SortPairs(pairs, n) ==
    IF n = 0 THEN << >> ELSE InsertByKey(SortPairs(pairs, n - 1), pairs[n])

\* s.sort_by(|a, b| Key(a).cmp(&Key(b))): Key gives a sequence of numbers,
\* compared lexicographically.
StableSortByKey(s, Key(_)) ==
    LET pairs == [i \in 1..Len(s) |-> << Key(s[i]), s[i] >>]
        sorted == SortPairs(pairs, Len(s))
    IN  [i \in 1..Len(s) |-> sorted[i][2]]

\* Some enumeration of a finite set.
SetToSeq(S) ==
    CHOOSE f \in [1..Cardinality(S) -> S] : \A i, j \in DOMAIN f : i /= j => f[i] /= f[j]

RemoveAt(s, i) == SubSeq(s, 1, i - 1) \o SubSeq(s, i + 1, Len(s))

\* The permutation of s numbered `code` (a Lehmer code).
RECURSIVE Permute(_, _)
Permute(s, code) ==
    IF s = << >> THEN << >>
    ELSE LET n == Len(s)
             i == (code % n) + 1
         IN  << s[i] >> \o Permute(RemoveAt(s, i), code \div n)

\* The order in which a HashMap with keys S is iterated: it depends on the
\* map's RandomState, here the number `seed` in 0..MaxHashSeed.
MaxHashSeed == 1
IterOrder(S, seed) == Permute(SetToSeq(S), seed)

RECURSIVE SumSeq(_)
SumSeq(s) == IF s = << >> THEN 0 ELSE Head(s) + SumSeq(Tail(s))

RECURSIVE Gcd(_, _)
Gcd(a, b) == IF b = 0 THEN a ELSE Gcd(b, a % b)

\* An exact fraction n/d (d > 0) in lowest terms, for the f64 quotients.
Rat(n, d) == LET g == Gcd(IF n < 0 THEN -n ELSE n, d)
             IN  IF g = 0 THEN << 0, 1 >> ELSE << n \div g, d \div g >>
RatAdd(a, b) == Rat(a[1] * b[2] + b[1] * a[2], a[2] * b[2])
RatLess(a, b) == a[1] * b[2] < b[1] * a[2]

----------------------------------------------------------------------------
(* DMX state store (analysis/dmx.rs) *)

DMX_MAX_SLOTS == 512

ZeroImage == [i \in 1..DMX_MAX_SLOTS |-> 0]

DmxStateKey(universe, source_id, protocol) ==
    [universe |-> universe, source_id |-> source_id, protocol |-> protocol]

\* entry(key).or_insert([0u8; 512])
StateEntry(st, key) == IF key \in DOMAIN st THEN st[key] ELSE ZeroImage

\* A faulty merge that starts every call from an all-zero image.
apply_partial_image_reset(entry, partial_slots) ==
    LET len == Min(Len(partial_slots), DMX_MAX_SLOTS)
    IN  [i \in 1..DMX_MAX_SLOTS |-> IF i <= len THEN partial_slots[i] ELSE 0]

\* len = min(|partial|, 512); entry[..len].copy_from_slice(&partial[..len])
apply_partial_image(entry, partial_slots) ==
    LET len == Min(Len(partial_slots), DMX_MAX_SLOTS)
    IN  [i \in 1..DMX_MAX_SLOTS |-> IF i <= len THEN partial_slots[i] ELSE entry[i]]

\* A store keyed by the source alone: the merge reaches the images of the
\* source under every universe and protocol.
apply_partial_by_source(st, key, partial_slots) ==
    [k \in DOMAIN st \cup {key} |->
        IF k.source_id = key.source_id
        THEN apply_partial_image(StateEntry(st, k), partial_slots)
        ELSE st[k]]

\* DmxStateStore::apply_partial: the new map (the returned image is the
\* entry of the key in it).
apply_partial(st, key, partial_slots) ==
    LET image == apply_partial_image(StateEntry(st, key), partial_slots)
    IN  [k \in DOMAIN st \cup {key} |-> IF k = key THEN image ELSE st[k]]


----------------------------------------------------------------------------
(* Universe aggregator (analysis/universes.rs) *)

\* PacketEvent.ts is f64 seconds; the model counts it in half seconds.
TICKS_PER_S == 2

JITTER_WINDOW_S == 10
JitterWindow == JITTER_WINDOW_S * TICKS_PER_S

MapPut(m, k, v) == [x \in DOMAIN m \cup {k} |-> IF x = k THEN v ELSE m[x]]
MapGetOr(m, k, default) == IF k \in DOMAIN m THEN m[k] ELSE default

\* UniverseSourceStats::default()
DefaultSourceStats ==
    [ frames |-> 0, loss |-> 0, burst_count |-> 0, max_burst_len |-> 0,
      current_burst |-> 0, last_seq |-> None, first_ts |-> None,
      last_ts |-> None, prev_iat |-> None, jitter_sum |-> 0,
      jitter_samples |-> << >>, frame_samples |-> << >>, loss_sum |-> 0,
      loss_samples |-> << >>, burst_start_samples |-> << >>,
      burst_length_samples |-> << >> ]

\* UniverseStats::default()
DefaultUniverseStats ==
    [ frames |-> 0, sources |-> << >>, first_ts |-> None, last_ts |-> None,
      per_source |-> << >> ]

Abs(x) == IF x < 0 THEN -x ELSE x

artnet_source_id(source_ip, source_port) ==
    Concat(<< STR_ARTNET, CH_COLON, FormatIp(source_ip), CH_COLON,
              FormatDec(source_port) >>)

sacn_source_id(cid, source_ip, source_port) ==
    IF cid = << >>
    THEN Concat(<< STR_SACN, CH_COLON, FormatIp(source_ip), CH_COLON,
                   FormatDec(source_port) >>)
    ELSE Concat(<< STR_SACN, CH_COLON, STR_CID, CH_COLON, cid >>)

\* Bounds that take the first and the latest timestamp seen, in arrival
\* order, for the smallest and the largest.
update_ts_bounds_in_order(first, last, ts) ==
    IF IsNone(ts) THEN << first, last >>
    ELSE << IF IsNone(first) THEN ts ELSE first, ts >>

\* update_ts_bounds: the new << first, last >>.
update_ts_bounds(first, last, ts) ==
    IF IsNone(ts) THEN << first, last >>
    ELSE LET t == Unwrap(ts)
         IN  << IF IsNone(first) \/ t < Unwrap(first) THEN Some(t) ELSE first,
                IF IsNone(last) \/ t > Unwrap(last) THEN Some(t) ELSE last >>

\* prune_frame_samples / prune_burst_starts: pop the front while it is
\* older than the window.
RECURSIVE prune_frame_samples(_, _)
prune_frame_samples(samples, now) ==
    IF samples = << >> THEN samples
    ELSE IF now - Head(samples) <= JitterWindow THEN samples
    ELSE prune_frame_samples(Tail(samples), now)

prune_burst_starts(samples, now) == prune_frame_samples(samples, now)

RECURSIVE prune_burst_lengths(_, _)
prune_burst_lengths(samples, now) ==
    IF samples = << >> THEN samples
    ELSE IF now - Head(samples)[1] <= JitterWindow THEN samples
    ELSE prune_burst_lengths(Tail(samples), now)

\* prune_loss_samples: also takes the popped losses off the sum
\* (saturating_sub).
RECURSIVE prune_loss_samples(_, _, _)
prune_loss_samples(samples, sum, now) ==
    IF samples = << >> THEN [samples |-> samples, sum |-> sum]
    ELSE IF now - Head(samples)[1] <= JitterWindow
         THEN [samples |-> samples, sum |-> sum]
    ELSE prune_loss_samples(Tail(samples), Max(0, sum - Head(samples)[2]), now)

\* The eviction loop of the jitter ring (update_source_stats, lines 223-229).
RECURSIVE prune_jitter_samples(_, _, _)
prune_jitter_samples(samples, sum, now) ==
    IF samples = << >> THEN [samples |-> samples, sum |-> sum]
    ELSE IF now - Head(samples)[1] <= JitterWindow
         THEN [samples |-> samples, sum |-> sum]
    ELSE prune_jitter_samples(Tail(samples), sum - Head(samples)[2], now)

\* A gap counted from the last sequence number itself.
seq_gap_from_last(last, seq) == (seq - last + 256) % 256

\* gap = seq.wrapping_sub(last.wrapping_add(1)) on u8.
seq_gap(last, seq) ==
    LET expected == (last + 1) % 256
    IN  (seq - expected + 256) % 256

\* A loss test without the upper limit: every non-zero gap counts as loss.
is_loss_gap_unbounded(gap) == gap > 0

\* if gap > 0 && gap < 128
is_loss_gap(gap) == gap > 0 /\ gap < 128

\* update_source_stats, lines 240-256: a lossy gap.
on_loss_gap(stats, gap, ts) ==
    LET a == [stats EXCEPT !.loss = @ + gap]
        b == IF IsSome(ts)
             THEN LET pr == prune_loss_samples(
                                Append(a.loss_samples, << Unwrap(ts), gap >>),
                                a.loss_sum + gap, Unwrap(ts))
                  IN  [a EXCEPT !.loss_sum = pr.sum, !.loss_samples = pr.samples]
             ELSE a
        c == IF b.current_burst = 0
             THEN LET c1 == [b EXCEPT !.burst_count = @ + 1]
                  IN  IF IsSome(ts)
                      THEN [c1 EXCEPT !.burst_start_samples =
                                prune_burst_starts(Append(@, Unwrap(ts)), Unwrap(ts))]
                      ELSE c1
             ELSE b
        d == [c EXCEPT !.current_burst = @ + gap]
    IN  [d EXCEPT !.max_burst_len = Max(@, d.current_burst)]

\* A continuation that leaves the open burst open.
on_normal_gap_keeps_burst(stats, ts) == stats

\* update_source_stats, lines 258-266: continuation or reorder.
on_normal_gap(stats, ts) ==
    LET a == IF stats.current_burst > 0 /\ IsSome(ts)
             THEN [stats EXCEPT !.burst_length_samples =
                        prune_burst_lengths(
                            Append(@, << Unwrap(ts), stats.current_burst >>),
                            Unwrap(ts))]
             ELSE stats
    IN  [a EXCEPT !.current_burst = 0]

\* update_source_stats, lines 217-232: inter-arrival time and jitter ring.
update_jitter(stats, ts) ==
    IF IsSome(ts) /\ IsSome(stats.last_ts)
    THEN LET t == Unwrap(ts)
             iat == t - Unwrap(stats.last_ts)
             j == IF IsSome(stats.prev_iat)
                  THEN LET diff == Abs(iat - Unwrap(stats.prev_iat))
                           pr == prune_jitter_samples(
                                     Append(stats.jitter_samples, << t, diff >>),
                                     stats.jitter_sum + diff, t)
                       IN  [stats EXCEPT !.jitter_sum = pr.sum,
                                         !.jitter_samples = pr.samples]
                  ELSE stats
         IN  [j EXCEPT !.prev_iat = Some(iat)]
    ELSE stats

update_source_stats(stats, sequence, ts) ==
    LET s1 == [stats EXCEPT !.frames = @ + 1,
                            !.first_ts = IF IsNone(@) THEN ts ELSE @]
        s2 == IF IsSome(ts)
              THEN [s1 EXCEPT !.frame_samples =
                        prune_frame_samples(Append(@, Unwrap(ts)), Unwrap(ts))]
              ELSE s1
        s3 == update_jitter(s2, ts)
        s4 == [s3 EXCEPT !.last_ts = ts]
    IN  IF IsSome(sequence)
        THEN LET seq == Unwrap(sequence)
                 s5 == IF IsSome(s4.last_seq)
                       THEN LET gap == seq_gap(Unwrap(s4.last_seq), seq)
                            IN  IF is_loss_gap(gap)
                                THEN on_loss_gap(s4, gap, ts)
                                ELSE on_normal_gap(s4, ts)
                       ELSE s4
             IN  [s5 EXCEPT !.last_seq = Some(seq)]
        ELSE s4

\* The part of add_artnet_frame / add_sacn_frame after the source id and
\* the SourceSummary are known.
add_frame(stats, universe, source_id, summary, sequence, ts) ==
    LET entry == MapGetOr(stats, universe, DefaultUniverseStats)
        source_stats == MapGetOr(entry.per_source, source_id, DefaultSourceStats)
        bounds == update_ts_bounds(entry.first_ts, entry.last_ts, ts)
        entry2 ==
            [ frames |-> entry.frames + 1,
              sources |-> IF source_id \in DOMAIN entry.sources
                          THEN entry.sources
                          ELSE MapPut(entry.sources, source_id, summary),
              first_ts |-> bounds[1],
              last_ts |-> bounds[2],
              per_source |-> MapPut(entry.per_source, source_id,
                                    update_source_stats(source_stats, sequence, ts)) ]
    IN  MapPut(stats, universe, entry2)

add_artnet_frame(stats, universe, source_ip, source_port, sequence, ts) ==
    add_frame(stats, universe, artnet_source_id(source_ip, source_port),
              [source_ip |-> FormatIp(source_ip), cid |-> None, source_name |-> None],
              sequence, ts)

add_sacn_frame(stats, universe, source_ip, source_port, cid, source_name, sequence, ts) ==
    add_frame(stats, universe, sacn_source_id(cid, source_ip, source_port),
              [source_ip |-> FormatIp(source_ip), cid |-> Some(cid),
               source_name |-> source_name],
              sequence, ts)

frames_in_window(stats) ==
    IF stats.frame_samples = << >> THEN stats.frames ELSE Len(stats.frame_samples)

loss_in_window(stats) ==
    IF stats.loss_samples = << >> THEN stats.loss ELSE stats.loss_sum

burst_count_in_window(stats) ==
    IF stats.burst_start_samples = << >>
    THEN stats.burst_count ELSE Len(stats.burst_start_samples)

RECURSIVE MaxLenOf(_, _)
MaxLenOf(samples, acc) ==
    IF samples = << >> THEN acc
    ELSE MaxLenOf(Tail(samples), Max(acc, Head(samples)[2]))

max_burst_len_in_window(stats) ==
    IF stats.burst_length_samples = << >> /\ stats.current_burst = 0
    THEN stats.max_burst_len
    ELSE MaxLenOf(stats.burst_length_samples, stats.current_burst)

RECURSIVE RatSum(_)
RatSum(s) == IF s = << >> THEN << 0, 1 >> ELSE RatAdd(Head(s), RatSum(Tail(s)))

\* A test that takes every source for a sequence-tracked one.
sequence_tracked_or_not(stats) == TRUE

\* compute_metrics, line 283: if stats.last_seq.is_some()
sequence_tracked(stats) == IsSome(stats.last_seq)

\* compute_metrics: the options of UniverseMetrics; loss_rate is the exact
\* fraction loss / (frames + loss), jitter_ms the exact fraction of ms.
compute_metrics(per_source) ==
    LET keys == SetToSeq(DOMAIN per_source)
        seqd == SelectSeq(keys, LAMBDA k : sequence_tracked(per_source[k]))
        jit == SelectSeq(keys, LAMBDA k : per_source[k].jitter_samples /= << >>)
        any_seq == seqd /= << >>
        total_seq_frames == SumSeq([i \in 1..Len(seqd) |-> frames_in_window(per_source[seqd[i]])])
        total_seq_loss == SumSeq([i \in 1..Len(seqd) |-> loss_in_window(per_source[seqd[i]])])
        total_seq_bursts == SumSeq([i \in 1..Len(seqd) |-> burst_count_in_window(per_source[seqd[i]])])
        total_seq_max_burst ==
            MaxLenOf([i \in 1..Len(seqd) |-> << 0, max_burst_len_in_window(per_source[seqd[i]]) >>], 0)
        jitter_sum == RatSum([i \in 1..Len(jit) |->
                          Rat(per_source[jit[i]].jitter_sum, Len(per_source[jit[i]].jitter_samples))])
        jitter_count == Len(jit)
        reported == any_seq /\ total_seq_frames > 1
    IN  [ loss_packets |-> IF reported THEN Some(total_seq_loss) ELSE None,
          loss_rate |-> IF reported /\ total_seq_frames + total_seq_loss > 0
                        THEN Some(Rat(total_seq_loss, total_seq_frames + total_seq_loss))
                        ELSE None,
          burst_count |-> IF reported THEN Some(total_seq_bursts) ELSE None,
          max_burst_len |-> IF reported THEN Some(total_seq_max_burst) ELSE None,
          jitter_ms |-> IF jitter_count > 0
                        THEN Some(Rat(jitter_sum[1] * 1000,
                                      jitter_sum[2] * jitter_count * TICKS_PER_S))
                        ELSE None ]


\* if overlap >= 1.0: the threshold itself counted as a conflict.
overlap_is_conflict_inclusive(overlap) == overlap >= 1 * TICKS_PER_S

\* if overlap > 1.0
overlap_is_conflict(overlap) == overlap > 1 * TICKS_PER_S

\* The records build_conflicts pushes for one universe: the pairs i < j of
\* the sorted source keys.
universe_conflicts(universe, uni) ==
    LET unsorted == SetToSeq(DOMAIN uni.per_source)
        keys == StableSortByKey(unsorted, LAMBDA k : k)
        n == Len(keys)
        pairs == [p \in 1..(n * n) |-> << ((p - 1) \div n) + 1, ((p - 1) % n) + 1 >>]
        Emits(p) ==
            /\ p[1] < p[2]
            /\ LET a == uni.per_source[keys[p[1]]]
                   b == uni.per_source[keys[p[2]]]
               IN  /\ IsSome(a.first_ts) /\ IsSome(a.last_ts)
                   /\ IsSome(b.first_ts) /\ IsSome(b.last_ts)
                   /\ overlap_is_conflict(
                          Max(Min(Unwrap(a.last_ts), Unwrap(b.last_ts))
                              - Max(Unwrap(a.first_ts), Unwrap(b.first_ts)), 0))
        emitted == SelectSeq(pairs, Emits)
    IN  [i \in 1..Len(emitted) |->
            LET a == uni.per_source[keys[emitted[i][1]]]
                b == uni.per_source[keys[emitted[i][2]]]
                overlap == Max(Min(Unwrap(a.last_ts), Unwrap(b.last_ts))
                               - Max(Unwrap(a.first_ts), Unwrap(b.first_ts)), 0)
            IN  [ universe |-> universe,
                  sources |-> << keys[emitted[i][1]], keys[emitted[i][2]] >>,
                  overlap_duration_s |-> Rat(overlap, TICKS_PER_S),
                  affected_channels |-> << >>,
                  severity |-> "medium",
                  conflict_score |-> Rat(overlap, TICKS_PER_S) ]]

conflict_sort_key(c) == << c.universe >> \o Join(c.sources, CH_COMMA)

\* build_conflicts: the universes are visited in the map's iteration order,
\* then the list is sorted by universe and joined source keys.
build_conflicts(stats, seed) ==
    LET order == IterOrder(DOMAIN stats, seed)
        found == Concat([i \in 1..Len(order) |->
                            universe_conflicts(order[i], stats[order[i]])])
    IN  StableSortByKey(found, conflict_sort_key)

----------------------------------------------------------------------------
(* Byte readers (protocols/*/reader.rs); offset k is index k + 1 *)

ReadU8(payload, offset) == payload[offset + 1]
ReadU16Le(payload, offset) == payload[offset + 1] + 256 * payload[offset + 2]
ReadU16Be(payload, offset) == 256 * payload[offset + 1] + payload[offset + 2]
ReadU32Be(payload, offset) ==
    ((payload[offset + 1] * 256 + payload[offset + 2]) * 256
        + payload[offset + 3]) * 256 + payload[offset + 4]
ReadSlice(payload, start, end) == SubSeq(payload, start + 1, end)

optional_nonzero_u8(value) == IF value = 0 THEN None ELSE Some(value)

Zeros(n) == [i \in 1..n |-> 0]
U16BeBytes(v) == << v \div 256, v % 256 >>
U16LeBytes(v) == << v % 256, v \div 256 >>
U32BeBytes(v) == << v \div 16777216, (v \div 65536) % 256, (v \div 256) % 256, v % 256 >>

\* payload[start..start+len(bytes)].copy_from_slice(bytes)
PutBytes(payload, start, bytes) ==
    [i \in 1..Len(payload) |->
        IF i > start /\ i <= start + Len(bytes) THEN bytes[i - start] ELSE payload[i]]

\* Result<Option<T>, E>
Ok(v) == [tag |-> "Ok", value |-> v]
Err(e) == [tag |-> "Err", err |-> e]

----------------------------------------------------------------------------
(* Art-Net decoder (protocols/artnet) *)

ARTNET_ID == << 65, 114, 116, 45, 78, 101, 116, 0 >>
ARTNET_OP_CODE_OFFSET == 8
ARTNET_SEQUENCE_OFFSET == 12
ARTNET_UNIVERSE_OFFSET == 14
ARTNET_LENGTH_OFFSET == 16
ARTNET_DMX_DATA_OFFSET == 18
ARTDMX_OPCODE == 20480

\* A length test that lets an empty frame through.
artdmx_length_ok_or_empty(length) == length <= DMX_MAX_SLOTS

\* if length == 0 || length as usize > layout::DMX_MAX_SLOTS { return Err(..) }
artdmx_length_ok(length) == ~(length = 0 \/ length > DMX_MAX_SLOTS)

\* parse_artdmx, lines 16-47: the checks and reads behind the minimum
\* length test.
parse_artdmx_fields(payload) ==
    IF ReadSlice(payload, 0, Len(ARTNET_ID)) /= ARTNET_ID THEN Ok(None)
    ELSE IF ReadU16Le(payload, ARTNET_OP_CODE_OFFSET) /= ARTDMX_OPCODE THEN Ok(None)
    ELSE LET sequence == optional_nonzero_u8(ReadU8(payload, ARTNET_SEQUENCE_OFFSET))
             universe == ReadU16Le(payload, ARTNET_UNIVERSE_OFFSET)
             length == ReadU16Be(payload, ARTNET_LENGTH_OFFSET)
             needed == ARTNET_DMX_DATA_OFFSET + length
         IN  IF ~artdmx_length_ok(length)
             THEN Err([kind |-> "InvalidLength", length |-> length])
             ELSE IF Len(payload) < needed
             THEN Err([kind |-> "TooShort", needed |-> needed, actual |-> Len(payload)])
             ELSE Ok(Some([ universe |-> universe,
                            sequence |-> sequence,
                            slots |-> [i \in 1..DMX_MAX_SLOTS |->
                                          IF i <= length
                                          THEN payload[ARTNET_DMX_DATA_OFFSET + i]
                                          ELSE 0] ]))

\* A decoder that tests the signature before the minimum length, so that a
\* short payload without the Art-Net signature is passed over silently.
parse_artdmx_signature_first(payload) ==
    IF Len(payload) < ARTNET_DMX_DATA_OFFSET
    THEN IF Len(payload) >= Len(ARTNET_ID)
            /\ ReadSlice(payload, 0, Len(ARTNET_ID)) = ARTNET_ID
         THEN Err([kind |-> "TooShort", needed |-> ARTNET_DMX_DATA_OFFSET,
                   actual |-> Len(payload)])
         ELSE Ok(None)
    ELSE parse_artdmx_fields(payload)

\* parse_artdmx: reader.require_len(layout::DMX_DATA_OFFSET)? comes first.
parse_artdmx(payload) ==
    IF Len(payload) < ARTNET_DMX_DATA_OFFSET
    THEN Err([kind |-> "TooShort", needed |-> ARTNET_DMX_DATA_OFFSET,
              actual |-> Len(payload)])
    ELSE parse_artdmx_fields(payload)

\* bin/pcapng_fixtures.rs: the ArtDMX payload of a sequence number, slots
\* and a universe.
build_artnet_payload(sequence, slots, universe) ==
    LET length == Min(Len(slots), DMX_MAX_SLOTS)
        p0 == Zeros(ARTNET_DMX_DATA_OFFSET + length)
        p1 == PutBytes(p0, 0, ARTNET_ID)
        p2 == PutBytes(p1, ARTNET_OP_CODE_OFFSET, U16LeBytes(ARTDMX_OPCODE))
        p3 == PutBytes(p2, ARTNET_SEQUENCE_OFFSET, << sequence >>)
        p4 == PutBytes(p3, ARTNET_UNIVERSE_OFFSET, U16LeBytes(universe))
        p5 == PutBytes(p4, ARTNET_LENGTH_OFFSET, U16BeBytes(length))
    IN  PutBytes(p5, ARTNET_DMX_DATA_OFFSET, SubSeq(slots, 1, length))

----------------------------------------------------------------------------
(* sACN decoder (protocols/sacn) *)

SACN_PREAMBLE_SIZE_OFFSET == 0
SACN_POSTAMBLE_SIZE_OFFSET == 2
SACN_ACN_PID_OFFSET == 4
SACN_ROOT_VECTOR_OFFSET == 18
SACN_CID_OFFSET == 22
SACN_CID_END == 38
SACN_FRAMING_VECTOR_OFFSET == 40
SACN_SOURCE_NAME_OFFSET == 44
SACN_SOURCE_NAME_END == 108
SACN_SEQUENCE_OFFSET == 111
SACN_UNIVERSE_OFFSET == 113
SACN_DMP_VECTOR_OFFSET == 117
SACN_PROPERTY_VALUE_COUNT_OFFSET == 123
SACN_START_CODE_OFFSET == 125
SACN_DMX_DATA_OFFSET == 126
ACN_PID == << 65, 83, 67, 45, 69, 49, 46, 49, 55, 0, 0, 0 >>
PREAMBLE_SIZE == 16
POSTAMBLE_SIZE == 0
ROOT_VECTOR_DATA == 4
FRAMING_VECTOR_DMX == 2
DMP_VECTOR_SET_PROPERTY == 2
SACN_MIN_LEN == SACN_DMP_VECTOR_OFFSET + 1

HexDigit(n) == IF n < 10 THEN 48 + n ELSE 87 + n

\* read_cid_hex: two lowercase hex digits per byte.
read_cid_hex(payload) ==
    LET bytes == ReadSlice(payload, SACN_CID_OFFSET, SACN_CID_END)
    IN  [i \in 1..(2 * Len(bytes)) |->
            IF i % 2 = 1 THEN HexDigit(bytes[(i + 1) \div 2] \div 16)
                         ELSE HexDigit(bytes[i \div 2] % 16)]

IsWhitespace(c) == c \in { 9, 10, 11, 12, 13, 32 }

RECURSIVE TrimEndMatches(_, _)
TrimEndMatches(s, c) ==
    IF s /= << >> /\ s[Len(s)] = c THEN TrimEndMatches(SubSeq(s, 1, Len(s) - 1), c) ELSE s

RECURSIVE TrimEnd(_)
TrimEnd(s) ==
    IF s /= << >> /\ IsWhitespace(s[Len(s)]) THEN TrimEnd(SubSeq(s, 1, Len(s) - 1)) ELSE s

RECURSIVE TrimStart(_)
TrimStart(s) ==
    IF s /= << >> /\ IsWhitespace(s[1]) THEN TrimStart(Tail(s)) ELSE s

\* str::trim
Trim(s) == TrimStart(TrimEnd(s))

\* read_optional_ascii_string (ASCII input): NULs cut from the end, then
\* trimmed; None when nothing is left.
read_optional_ascii_string(payload, start, end) ==
    LET value == Trim(TrimEndMatches(ReadSlice(payload, start, end), 0))
    IN  IF value = << >> THEN None ELSE Some(value)

\* SacnReader::read_start_code: the byte at 125 must be 0x00.
read_start_code(payload) ==
    IF Len(payload) < SACN_START_CODE_OFFSET + 1
    THEN Err([kind |-> "TooShort", needed |-> SACN_START_CODE_OFFSET + 1,
              actual |-> Len(payload)])
    ELSE IF ReadU8(payload, SACN_START_CODE_OFFSET) /= 0
         THEN Err([kind |-> "InvalidStartCode",
                   value |-> ReadU8(payload, SACN_START_CODE_OFFSET)])
         ELSE Ok(0)

\* SacnReader::read_dmx_data_len: the property value count at 123 must be
\* in 2..=513; the slots are count - 1.
read_dmx_data_len(payload) ==
    LET count == ReadU16Be(payload, SACN_PROPERTY_VALUE_COUNT_OFFSET)
    IN  IF count < 2 \/ count > DMX_MAX_SLOTS + 1
        THEN Err([kind |-> "InvalidPropertyValueCount", count |-> count])
        ELSE Ok(count - 1)

\* A header validation that tests the vectors before the ACN packet
\* identifier.
sacn_header_error_vectors_first(payload) ==
    IF ReadU32Be(payload, SACN_ROOT_VECTOR_OFFSET) /= ROOT_VECTOR_DATA
    THEN Some([kind |-> "InvalidRootVector",
               value |-> ReadU32Be(payload, SACN_ROOT_VECTOR_OFFSET)])
    ELSE IF ReadU32Be(payload, SACN_FRAMING_VECTOR_OFFSET) /= FRAMING_VECTOR_DMX
    THEN Some([kind |-> "InvalidFramingVector",
               value |-> ReadU32Be(payload, SACN_FRAMING_VECTOR_OFFSET)])
    ELSE IF ReadU8(payload, SACN_DMP_VECTOR_OFFSET) /= DMP_VECTOR_SET_PROPERTY
    THEN Some([kind |-> "InvalidDmpVector",
               value |-> ReadU8(payload, SACN_DMP_VECTOR_OFFSET)])
    ELSE IF ReadSlice(payload, SACN_ACN_PID_OFFSET, SACN_ACN_PID_OFFSET + Len(ACN_PID)) /= ACN_PID
    THEN Some([kind |-> "InvalidAcnPid"])
    ELSE None

\* parse_sacn_dmx, lines 24-44: the error of the first header field that
\* mismatches, in the order ACN PID, root vector, framing vector, DMP vector.
sacn_header_error(payload) ==
    IF ReadSlice(payload, SACN_ACN_PID_OFFSET, SACN_ACN_PID_OFFSET + Len(ACN_PID)) /= ACN_PID
    THEN Some([kind |-> "InvalidAcnPid"])
    ELSE IF ReadU32Be(payload, SACN_ROOT_VECTOR_OFFSET) /= ROOT_VECTOR_DATA
    THEN Some([kind |-> "InvalidRootVector",
               value |-> ReadU32Be(payload, SACN_ROOT_VECTOR_OFFSET)])
    ELSE IF ReadU32Be(payload, SACN_FRAMING_VECTOR_OFFSET) /= FRAMING_VECTOR_DMX
    THEN Some([kind |-> "InvalidFramingVector",
               value |-> ReadU32Be(payload, SACN_FRAMING_VECTOR_OFFSET)])
    ELSE IF ReadU8(payload, SACN_DMP_VECTOR_OFFSET) /= DMP_VECTOR_SET_PROPERTY
    THEN Some([kind |-> "InvalidDmpVector",
               value |-> ReadU8(payload, SACN_DMP_VECTOR_OFFSET)])
    ELSE None

\* A validation that reads the property value count before the start code.
sacn_data_error_count_first(payload) ==
    IF read_dmx_data_len(payload).tag = "Err" THEN Some(read_dmx_data_len(payload).err)
    ELSE IF read_start_code(payload).tag = "Err" THEN Some(read_start_code(payload).err)
    ELSE None

\* parse_sacn_dmx, lines 46-52: reader.read_start_code()? comes before
\* reader.read_dmx_data_len()?; the reads between them cannot fail on a
\* payload of MIN_LEN bytes.
sacn_data_error(payload) ==
    IF read_start_code(payload).tag = "Err" THEN Some(read_start_code(payload).err)
    ELSE IF read_dmx_data_len(payload).tag = "Err" THEN Some(read_dmx_data_len(payload).err)
    ELSE None

\* parse_sacn_dmx, lines 18-69: the checks and reads behind the minimum
\* length test.
parse_sacn_dmx_fields(payload) ==
    IF \/ ReadU16Be(payload, SACN_PREAMBLE_SIZE_OFFSET) /= PREAMBLE_SIZE
       \/ ReadU16Be(payload, SACN_POSTAMBLE_SIZE_OFFSET) /= POSTAMBLE_SIZE
    THEN Ok(None)
    ELSE IF IsSome(sacn_header_error(payload))
    THEN Err(Unwrap(sacn_header_error(payload)))
    ELSE IF IsSome(sacn_data_error(payload))
    THEN Err(Unwrap(sacn_data_error(payload)))
    ELSE LET data_len == read_dmx_data_len(payload).value
             needed == SACN_DMX_DATA_OFFSET + data_len
         IN  IF Len(payload) < needed
             THEN Err([kind |-> "TooShort", needed |-> needed, actual |-> Len(payload)])
             ELSE Ok(Some([
                    universe |-> ReadU16Be(payload, SACN_UNIVERSE_OFFSET),
                    cid |-> read_cid_hex(payload),
                    source_name |-> read_optional_ascii_string(payload,
                                        SACN_SOURCE_NAME_OFFSET, SACN_SOURCE_NAME_END),
                    sequence |-> optional_nonzero_u8(ReadU8(payload, SACN_SEQUENCE_OFFSET)),
                    slots |-> ReadSlice(payload, SACN_DMX_DATA_OFFSET, needed) ]))

\* A decoder that tests the preamble before the minimum length, so that a
\* short payload of another protocol is passed over silently.
parse_sacn_dmx_signature_first(payload) ==
    IF Len(payload) < SACN_MIN_LEN
    THEN IF Len(payload) >= 4
            /\ ( ReadU16Be(payload, SACN_PREAMBLE_SIZE_OFFSET) /= PREAMBLE_SIZE
                 \/ ReadU16Be(payload, SACN_POSTAMBLE_SIZE_OFFSET) /= POSTAMBLE_SIZE )
         THEN Ok(None)
         ELSE Err([kind |-> "TooShort", needed |-> SACN_MIN_LEN, actual |-> Len(payload)])
    ELSE parse_sacn_dmx_fields(payload)

parse_sacn_dmx(payload) ==
    IF Len(payload) < SACN_MIN_LEN
    THEN Err([kind |-> "TooShort", needed |-> SACN_MIN_LEN, actual |-> Len(payload)])
    ELSE parse_sacn_dmx_fields(payload)

\* bin/pcapng_fixtures.rs: cid_bytes, the CID 00 01 .. 0f.
cid_bytes == [i \in 1..16 |-> i - 1]

\* bin/pcapng_fixtures.rs: the sACN data packet of a sequence number, slots
\* and a universe.
build_sacn_payload(sequence, slots, universe) ==
    LET length == Min(Len(slots), DMX_MAX_SLOTS)
        p0 == Zeros(SACN_DMX_DATA_OFFSET + length)
        p1 == PutBytes(p0, SACN_PREAMBLE_SIZE_OFFSET, U16BeBytes(PREAMBLE_SIZE))
        p2 == PutBytes(p1, SACN_POSTAMBLE_SIZE_OFFSET, U16BeBytes(POSTAMBLE_SIZE))
        p3 == PutBytes(p2, SACN_ACN_PID_OFFSET, ACN_PID)
        p4 == PutBytes(p3, SACN_ROOT_VECTOR_OFFSET, U32BeBytes(ROOT_VECTOR_DATA))
        p5 == PutBytes(p4, SACN_CID_OFFSET, cid_bytes)
        p6 == PutBytes(p5, SACN_FRAMING_VECTOR_OFFSET, U32BeBytes(FRAMING_VECTOR_DMX))
        p7 == PutBytes(p6, SACN_SEQUENCE_OFFSET, << sequence >>)
        p8 == PutBytes(p7, SACN_UNIVERSE_OFFSET, U16BeBytes(universe))
        p9 == PutBytes(p8, SACN_DMP_VECTOR_OFFSET, << DMP_VECTOR_SET_PROPERTY >>)
        p10 == PutBytes(p9, SACN_PROPERTY_VALUE_COUNT_OFFSET, U16BeBytes(length + 1))
        p11 == PutBytes(p10, SACN_START_CODE_OFFSET, << 0 >>)
    IN  PutBytes(p11, SACN_DMX_DATA_OFFSET, SubSeq(slots, 1, length))

----------------------------------------------------------------------------
(* UDP decode (analysis/udp) *)

UDP_HEADER_LEN == 8

\* A transport test that lets every transport protocol through.
is_udp_transport_any(transport) == TRUE

\* match transport { TransportSlice::Udp(udp) => udp, _ => return Ok(None) }
is_udp_transport(transport) == transport.proto = "udp"

\* A link-layer frame is given by what etherparse makes of it: whether it
\* can be sliced (slice_error is None or the error text), its network
\* layer (None for a frame that carries no IP, else the addresses and the
\* IP payload) and its transport layer (None, or the protocol and ports).
parse_udp_packet(linktype, data) ==
    IF linktype \notin { "ETHERNET", "RAW" } THEN Ok(None)
    ELSE IF IsSome(data.slice_error)
    THEN Err([kind |-> "Slice", message |-> Unwrap(data.slice_error)])
    ELSE IF IsNone(data.net) THEN Err([kind |-> "MissingNetworkLayer"])
    ELSE IF IsNone(data.transport) THEN Ok(None)
    ELSE IF ~is_udp_transport(Unwrap(data.transport)) THEN Ok(None)
    ELSE IF IsNone(Unwrap(data.net).ip_payload) THEN Err([kind |-> "MissingIpPayload"])
    ELSE LET ip_payload == Unwrap(Unwrap(data.net).ip_payload)
         IN  IF Len(ip_payload) < UDP_HEADER_LEN
             THEN Err([kind |-> "TooShort", needed |-> UDP_HEADER_LEN,
                       actual |-> Len(ip_payload)])
             ELSE Ok(Some([ src_ip |-> Unwrap(data.net).src_ip,
                            src_port |-> Unwrap(data.transport).src_port,
                            dst_ip |-> Unwrap(data.net).dst_ip,
                            dst_port |-> Unwrap(data.transport).dst_port,
                            payload |-> SubSeq(ip_payload, UDP_HEADER_LEN + 1,
                                               Len(ip_payload)) ]))

\* bin/pcapng_fixtures.rs, build_ipv4_udp_packet, as etherparse slices it.
build_ipv4_udp_packet(src_ip, dst_ip, src_port, dst_port, payload) ==
    [ slice_error |-> None,
      net |-> Some([ src_ip |-> src_ip, dst_ip |-> dst_ip,
                     ip_payload |-> Some(Concat(<< U16BeBytes(src_port),
                                                  U16BeBytes(dst_port),
                                                  U16BeBytes((8 + Len(payload)) % 65536),
                                                  U16BeBytes(0), payload >>)) ]),
      transport |-> Some([proto |-> "udp", src_port |-> src_port,
                          dst_port |-> dst_port]) ]

----------------------------------------------------------------------------
(* Compliance recorder (analysis/mod.rs) *)

STR_UDP == << 117, 100, 112 >>
STR_ERROR == << 101, 114, 114, 111, 114 >>
STR_WARNING == << 119, 97, 114, 110, 105, 110, 103 >>
STR_UNKNOWN == << 117, 110, 107, 110, 111, 119, 110 >>
STR_SOURCE_SP == << 115, 111, 117, 114, 99, 101, 32 >>
STR_AT == << 32, 64, 32 >>
STR_SEMI_SP == << 59, 32 >>
STR_EPOCH_DATE == << 49, 57, 55, 48, 45, 48, 49, 45, 48, 49, 84 >>
STR_Z == << 90 >>

ToAsciiLowercase(s) == [i \in 1..Len(s) |-> IF s[i] \in 65..90 THEN s[i] + 32 ELSE s[i]]

Pad2(n) == << 48 + (n \div 10), 48 + (n % 10) >>

RECURSIVE PadDec(_, _)
PadDec(n, width) ==
    IF width = 0 THEN << >> ELSE PadDec(n \div 10, width - 1) \o << 48 + (n % 10) >>

\* ts_to_rfc3339, for a timestamp within the first day of the epoch:
\* 1970-01-01THH:MM:SS[.fraction]Z, the fraction without trailing zeros.
ts_to_rfc3339(ts) ==
    IF IsNone(ts) THEN None
    ELSE LET t == Unwrap(ts)
             secs == t \div TICKS_PER_S
             nanos == ((t % TICKS_PER_S) * 1000000000) \div TICKS_PER_S
             fraction == TrimEndMatches(PadDec(nanos, 9), 48)
         IN  Some(Concat(<< STR_EPOCH_DATE, Pad2(secs \div 3600), CH_COLON,
                            Pad2((secs \div 60) % 60), CH_COLON, Pad2(secs % 60),
                            IF fraction = << >> THEN << >> ELSE CH_DOT \o fraction,
                            STR_Z >>))

\* format_violation_example; source is None or Some(<< ip, port >>).
format_violation_example(base, source, ts) ==
    LET b == Trim(base)
    IN  IF IsNone(source) THEN b
        ELSE LET stamp == IF IsSome(ts_to_rfc3339(ts))
                          THEN Unwrap(ts_to_rfc3339(ts)) ELSE STR_UNKNOWN
                 head == Concat(<< STR_SOURCE_SP, FormatIp(Unwrap(source)[1]), CH_COLON,
                                   FormatDec(Unwrap(source)[2]), STR_AT, stamp >>)
             IN  IF b = << >> THEN head ELSE Concat(<< head, STR_SEMI_SP, b >>)

StartsWith(s, prefix) ==
    Len(s) >= Len(prefix) /\ SubSeq(s, 1, Len(prefix)) = prefix

normalize_example(example) ==
    IF example = << >> THEN Concat(<< STR_SOURCE_SP, STR_UNKNOWN, STR_AT, STR_UNKNOWN >>)
    ELSE IF StartsWith(example, STR_SOURCE_SP) THEN example
    ELSE Concat(<< STR_SOURCE_SP, STR_UNKNOWN, STR_AT, STR_UNKNOWN, STR_SEMI_SP, example >>)

Contains(s, x) == \E i \in 1..Len(s) : s[i] = x

\* A recorder that keeps every distinct example.
record_violation_uncapped(comp, protocol_in, id_in, severity_in, message_in, example_in) ==
    LET protocol == ToAsciiLowercase(Trim(protocol_in))
        id == Trim(id_in)
        severity == Trim(severity_in)
        message == Trim(message_in)
        example == normalize_example(Trim(example_in))
        entry == MapGetOr(comp, protocol,
                    [ protocol |-> protocol, compliance_percentage |-> 100,
                      violations |-> << >> ])
        hits == { i \in 1..Len(entry.violations) : entry.violations[i].id = id }
        violations ==
            IF hits /= {}
            THEN LET first == CHOOSE i \in hits : \A j \in hits : i <= j
                     existing == entry.violations[first]
                     updated == [existing EXCEPT
                                    !.count = @ + 1,
                                    !.examples = IF ~Contains(@, example)
                                                 THEN Append(@, example) ELSE @]
                 IN  [entry.violations EXCEPT ![first] = updated]
            ELSE Append(entry.violations,
                        [ id |-> id, severity |-> severity, message |-> message,
                          count |-> 1, examples |-> << example >> ])
    IN  MapPut(comp, protocol, [entry EXCEPT !.violations = violations])

\* record_violation: the new compliance map.
record_violation(comp, protocol_in, id_in, severity_in, message_in, example_in) ==
    LET protocol == ToAsciiLowercase(Trim(protocol_in))
        id == Trim(id_in)
        severity == Trim(severity_in)
        message == Trim(message_in)
        example == normalize_example(Trim(example_in))
        entry == MapGetOr(comp, protocol,
                    [ protocol |-> protocol, compliance_percentage |-> 100,
                      violations |-> << >> ])
        hits == { i \in 1..Len(entry.violations) : entry.violations[i].id = id }
        violations ==
            IF hits /= {}
            THEN LET first == CHOOSE i \in hits : \A j \in hits : i <= j
                     existing == entry.violations[first]
                     updated == [existing EXCEPT
                                    !.count = @ + 1,
                                    !.examples = IF Len(@) < 3 /\ ~Contains(@, example)
                                                 THEN Append(@, example) ELSE @]
                 IN  [entry.violations EXCEPT ![first] = updated]
            ELSE Append(entry.violations,
                        [ id |-> id, severity |-> severity, message |-> message,
                          count |-> 1, examples |-> << example >> ])
    IN  MapPut(comp, protocol, [entry EXCEPT !.violations = violations])

\* A ranking that puts the warnings first.
severity_rank_warning_first(severity) ==
    IF severity = STR_WARNING THEN 0 ELSE IF severity = STR_ERROR THEN 1 ELSE 2

severity_rank(severity) ==
    IF severity = STR_ERROR THEN 0 ELSE IF severity = STR_WARNING THEN 1 ELSE 2

\* finalize_compliance: the entries are taken in the map's iteration order,
\* their violations sorted by severity rank then id, the examples sorted,
\* then the entries sorted by protocol.
finalize_compliance(comp, seed) ==
    LET order == IterOrder(DOMAIN comp, seed)
        entries == [i \in 1..Len(order) |->
            LET entry == comp[order[i]]
                sorted == StableSortByKey(entry.violations,
                              LAMBDA v : << severity_rank(v.severity) >> \o v.id)
            IN  [entry EXCEPT !.violations =
                    [j \in 1..Len(sorted) |->
                        [sorted[j] EXCEPT !.examples = StableSortByKey(@, LAMBDA e : e)]]]]
    IN  StableSortByKey(entries, LAMBDA e : e.protocol)

----------------------------------------------------------------------------
(* Flows (analysis/flows.rs) *)

PPS_BPS_WINDOW_S == 1
FLOW_JITTER_WINDOW_S == 10

\* FlowStats::default()
DefaultFlowStats ==
    [ packets |-> 0, bytes |-> 0, first_ts |-> None, last_ts |-> None,
      prev_iat |-> None, iat_count |-> 0, max_iat_ms |-> None, jitter_sum |-> 0,
      jitter_samples |-> << >>, jitter_peak |-> None, window_packets |-> 0,
      window_bytes |-> 0, window_samples |-> << >>, peak_pps |-> None,
      peak_bps |-> None, peak_window_packets |-> 0, peak_window_bytes |-> 0 ]

RECURSIVE prune_flow_jitter(_, _, _)
prune_flow_jitter(samples, sum, now) ==
    IF samples = << >> THEN [samples |-> samples, sum |-> sum]
    ELSE IF now - Head(samples)[1] <= FLOW_JITTER_WINDOW_S * TICKS_PER_S
         THEN [samples |-> samples, sum |-> sum]
    ELSE prune_flow_jitter(Tail(samples), sum - Head(samples)[2], now)

\* (iat * 1000.0).round() of an interval in ticks.
IatMs(iat) == (2 * iat * 1000 + TICKS_PER_S) \div (2 * TICKS_PER_S)

RatMax(a, b) == IF RatLess(a, b) THEN b ELSE a

update_flow_jitter(stats, ts) ==
    IF IsNone(ts) THEN stats
    ELSE LET t == Unwrap(ts)
             s1 == IF IsNone(stats.first_ts) THEN [stats EXCEPT !.first_ts = Some(t)]
                   ELSE stats
             s2 == IF IsSome(s1.last_ts)
                   THEN LET iat == t - Unwrap(s1.last_ts)
                            a == IF iat >= 0
                                 THEN [s1 EXCEPT
                                         !.iat_count = @ + 1,
                                         !.max_iat_ms = IF IsNone(@) THEN Some(IatMs(iat))
                                                        ELSE Some(Max(Unwrap(@), IatMs(iat)))]
                                 ELSE s1
                            b == IF IsSome(a.prev_iat)
                                 THEN LET diff == Abs(iat - Unwrap(a.prev_iat))
                                          pr == prune_flow_jitter(
                                                    Append(a.jitter_samples, << t, diff >>),
                                                    a.jitter_sum + diff, t)
                                          window_avg == Rat(pr.sum, Len(pr.samples) * TICKS_PER_S)
                                      IN  [a EXCEPT
                                             !.jitter_sum = pr.sum,
                                             !.jitter_samples = pr.samples,
                                             !.jitter_peak = IF IsNone(@) THEN Some(window_avg)
                                                             ELSE Some(RatMax(Unwrap(@), window_avg))]
                                 ELSE a
                        IN  [b EXCEPT !.prev_iat = Some(iat)]
                   ELSE s1
         IN  [s2 EXCEPT !.last_ts = Some(t)]

\* A window that drops the sample exactly one window old.
in_rate_window_open(now, sample_ts) == now - sample_ts < PPS_BPS_WINDOW_S * TICKS_PER_S

\* update_flow_rates, line 157: if ts - sample_ts <= PPS_BPS_WINDOW_S
in_rate_window(now, sample_ts) == now - sample_ts <= PPS_BPS_WINDOW_S * TICKS_PER_S

RECURSIVE prune_flow_window(_, _, _, _)
prune_flow_window(samples, packets, bytes, now) ==
    IF samples = << >> THEN [samples |-> samples, packets |-> packets, bytes |-> bytes]
    ELSE IF in_rate_window(now, Head(samples)[1])
         THEN [samples |-> samples, packets |-> packets, bytes |-> bytes]
    ELSE prune_flow_window(Tail(samples), Max(0, packets - 1),
                           Max(0, bytes - Head(samples)[2]), now)

update_flow_rates(stats, ts, bytes) ==
    IF IsNone(ts) THEN stats
    ELSE LET t == Unwrap(ts)
             pr == prune_flow_window(Append(stats.window_samples, << t, bytes >>),
                                     stats.window_packets + 1,
                                     stats.window_bytes + bytes, t)
             pps == Rat(pr.packets, PPS_BPS_WINDOW_S)
             bps == Rat(pr.bytes, PPS_BPS_WINDOW_S)
         IN  [stats EXCEPT
                !.window_samples = pr.samples,
                !.window_packets = pr.packets,
                !.window_bytes = pr.bytes,
                !.peak_pps = IF IsNone(@) THEN Some(pps) ELSE Some(RatMax(Unwrap(@), pps)),
                !.peak_bps = IF IsNone(@) THEN Some(bps) ELSE Some(RatMax(Unwrap(@), bps)),
                !.peak_window_packets = Max(@, pr.packets),
                !.peak_window_bytes = Max(@, pr.bytes)]

FlowKey(packet) ==
    [ src_ip |-> packet.src_ip, src_port |-> packet.src_port,
      dst_ip |-> packet.dst_ip, dst_port |-> packet.dst_port ]

add_flow_stats(stats, packet, ts) ==
    LET key == FlowKey(packet)
        entry == MapGetOr(stats, key, DefaultFlowStats)
        counted == [entry EXCEPT !.packets = @ + 1, !.bytes = @ + Len(packet.payload)]
    IN  MapPut(stats, key,
               update_flow_rates(update_flow_jitter(counted, ts), ts, Len(packet.payload)))

\* format_endpoint of an IPv4 endpoint.
format_endpoint(ip, port) == Concat(<< FormatIp(ip), CH_COLON, FormatDec(port) >>)

\* A sort key for (a, b) compared as a tuple of strings.
PairKey(a, b) == a \o << -1 >> \o b

build_flow_summaries(stats, seed) ==
    LET order == IterOrder(DOMAIN stats, seed)
        flows == [i \in 1..Len(order) |->
            LET key == order[i]
                st == stats[key]
                long == /\ IsSome(st.first_ts) /\ IsSome(st.last_ts)
                        /\ Unwrap(st.last_ts) - Unwrap(st.first_ts)
                              >= PPS_BPS_WINDOW_S * TICKS_PER_S
            IN  [ app_proto |-> STR_UDP,
                  src |-> format_endpoint(key.src_ip, key.src_port),
                  dst |-> format_endpoint(key.dst_ip, key.dst_port),
                  pps |-> st.peak_pps,
                  bps |-> st.peak_bps,
                  iat_jitter_ms |-> IF IsSome(st.jitter_peak)
                                    THEN Some(Rat(Unwrap(st.jitter_peak)[1] * 1000,
                                                  Unwrap(st.jitter_peak)[2]))
                                    ELSE None,
                  max_iat_ms |-> IF st.iat_count > 0 THEN st.max_iat_ms ELSE None,
                  pps_peak_1s |-> IF long THEN Some(st.peak_window_packets) ELSE None,
                  bps_peak_1s |-> IF long THEN Some(st.peak_window_bytes) ELSE None ]]
    IN  StableSortByKey(flows, LAMBDA f : PairKey(f.src, f.dst))

----------------------------------------------------------------------------
(* DMX frame store and the frame rate (analysis/dmx.rs, universes.rs) *)

FPS_WINDOW_S == 5

\* DmxStore::push
\* A log that keeps the latest frame of each source only.
dmx_store_push_latest(store, frame) ==
    LET per_universe == MapGetOr(store, frame.universe, << >>)
    IN  MapPut(store, frame.universe,
               MapPut(per_universe, frame.source_id, << frame >>))

dmx_store_push(store, frame) ==
    LET per_universe == MapGetOr(store, frame.universe, << >>)
        frames == MapGetOr(per_universe, frame.source_id, << >>)
    IN  MapPut(store, frame.universe,
               MapPut(per_universe, frame.source_id, Append(frames, frame)))

\* DmxStore::frames_for_universe: the frames of the sources, in the
\* iteration order of the per-source map, filtered by protocol.
frames_for_universe(store, universe, protocol, seed) ==
    IF universe \notin DOMAIN store THEN << >>
    ELSE LET order == IterOrder(DOMAIN store[universe], seed)
             all == Concat([i \in 1..Len(order) |-> store[universe][order[i]]])
         IN  SelectSeq(all, LAMBDA f : f.protocol = protocol)

\* A rate that counts the intervals between the frames of the window.
fps_rate_per_interval(window_count, window_duration) ==
    IF window_duration > 0 /\ window_count > 0
    THEN Some(Rat((window_count - 1) * TICKS_PER_S, window_duration))
    ELSE None

\* fps_from_dmx, lines 192-195: the frames of the window over its duration.
fps_rate(window_count, window_duration) ==
    IF window_duration > 0 /\ window_count > 0
    THEN Some(Rat(window_count * TICKS_PER_S, window_duration))
    ELSE None

\* A window that leaves out the frame at its start.
fps_in_window_open(ts, window_start) == ts > window_start

\* fps_from_dmx, lines 181-185: the frames the window counts.
fps_in_window(ts, window_start) == ts >= window_start

fps_from_dmx(store, universe, protocol, fallback_frames, seed) ==
    LET frames == frames_for_universe(store, universe, protocol, seed)
        stamps == { Unwrap(frames[i].timestamp) :
                    i \in { j \in 1..Len(frames) : IsSome(frames[j].timestamp) } }
        counted == Len(SelectSeq(frames, LAMBDA f : IsSome(f.timestamp)))
        frame_count == IF counted > 0 THEN counted ELSE fallback_frames
    IN  IF stamps = {} THEN None
        ELSE LET latest == CHOOSE m \in stamps : \A x \in stamps : x <= m
                 earliest == CHOOSE m \in stamps : \A x \in stamps : m <= x
                 window_start == latest - FPS_WINDOW_S * TICKS_PER_S
                 window_count == Len(SelectSeq(frames,
                     LAMBDA f : IsSome(f.timestamp)
                                 /\ fps_in_window(Unwrap(f.timestamp), window_start)))
                 window_duration == IF latest - earliest < FPS_WINDOW_S * TICKS_PER_S
                                    THEN latest - earliest
                                    ELSE FPS_WINDOW_S * TICKS_PER_S
             IN  IF latest <= earliest \/ frame_count = 0 THEN None
                 ELSE fps_rate(window_count, window_duration)

\* build_universe_summaries: the sources come out of the map in its
\* iteration order and are then sorted by source_ip (a stable sort).
build_universe_summaries(stats, store, protocol, proto, seed) ==
    LET order == IterOrder(DOMAIN stats, seed)
        universes == [i \in 1..Len(order) |->
            LET universe == order[i]
                st == stats[universe]
                ids == IterOrder(DOMAIN st.sources, seed)
                sources == StableSortByKey([j \in 1..Len(ids) |-> st.sources[ids[j]]],
                                           LAMBDA s : s.source_ip)
                metrics == compute_metrics(st.per_source)
            IN  [ universe |-> universe,
                  proto |-> proto,
                  sources |-> sources,
                  fps |-> fps_from_dmx(store, universe, protocol, st.frames, seed),
                  frames_count |-> st.frames,
                  loss_packets |-> metrics.loss_packets,
                  loss_rate |-> metrics.loss_rate,
                  burst_count |-> metrics.burst_count,
                  max_burst_len |-> metrics.max_burst_len,
                  jitter_ms |-> metrics.jitter_ms ]]
    IN  StableSortByKey(universes, LAMBDA u : << u.universe >>)

----------------------------------------------------------------------------
(* The violations analyze_source records (analysis/mod.rs, lines 62-373) *)

ARTNET_PORT == 6454
SACN_PORT == 5568

RECURSIVE FormatHexDigits(_, _)
FormatHexDigits(n, width) ==
    IF width = 0 THEN << >>
    ELSE FormatHexDigits(n \div 16, width - 1) \o << HexDigit(n % 16) >>

\* format!("0x{:0w$x}", n)
FormatHex(n, width) == << 48, 120 >> \o FormatHexDigits(n, width)

NeededActual(err) ==
    Concat(<< << 110, 101, 101, 100, 101, 100, 61 >>, FormatDec(err.needed), << 44, 32, 97, 99, 116, 117, 97, 108, 61 >>, FormatDec(err.actual) >>)

PortsExample(udp) ==
    Concat(<< << 112, 111, 114, 116, 115, 61 >>, FormatIp(udp.src_ip), CH_COLON, FormatDec(udp.src_port),
              << 45, 62 >>, FormatIp(udp.dst_ip), CH_COLON, FormatDec(udp.dst_port) >>)

Violation(id, severity, message, base) ==
    [id |-> id, severity |-> severity, message |-> message, base |-> base]

\* Lines 66-82.
artnet_port_violation(udp) ==
    Violation(<< 76, 83, 45, 65, 82, 84, 78, 69, 84, 45, 80, 79, 82, 84 >>, STR_WARNING,
              << 78, 111, 110, 45, 115, 116, 97, 110, 100, 97, 114, 100, 32, 65, 114, 116, 45, 78, 101, 116, 32, 112, 111, 114, 116, 59, 32, 112, 97, 99, 107, 101, 116, 32, 97, 99, 99, 101, 112, 116, 101, 100 >>, PortsExample(udp))

\* Lines 106-170.
artnet_error_violation(err) ==
    CASE err.kind = "InvalidUniverseId" ->
            Violation(<< 76, 83, 45, 65, 82, 84, 78, 69, 84, 45, 85, 78, 73, 86, 69, 82, 83, 69, 45, 73, 68 >>, STR_ERROR,
                      << 73, 110, 118, 97, 108, 105, 100, 32, 65, 114, 116, 45, 78, 101, 116, 32, 117, 110, 105, 118, 101, 114, 115, 101, 32, 105, 100, 59, 32, 112, 97, 99, 107, 101, 116, 32, 105, 103, 110, 111, 114, 101, 100 >>,
                      << 118, 97, 108, 117, 101, 61 >> \o FormatDec(err.value))
      [] err.kind = "InvalidLength" ->
            Violation(<< 76, 83, 45, 65, 82, 84, 78, 69, 84, 45, 76, 69, 78, 71, 84, 72 >>, STR_ERROR,
                      << 73, 110, 118, 97, 108, 105, 100, 32, 65, 114, 116, 68, 77, 88, 32, 108, 101, 110, 103, 116, 104, 59, 32, 112, 97, 99, 107, 101, 116, 32, 105, 103, 110, 111, 114, 101, 100 >>,
                      << 108, 101, 110, 103, 116, 104, 61 >> \o FormatDec(err.length))
      [] err.kind = "TooShort" ->
            Violation(<< 76, 83, 45, 65, 82, 84, 78, 69, 84, 45, 84, 79, 79, 45, 83, 72, 79, 82, 84 >>, STR_ERROR,
                      << 73, 110, 118, 97, 108, 105, 100, 32, 65, 114, 116, 45, 78, 101, 116, 32, 112, 97, 121, 108, 111, 97, 100, 32, 108, 101, 110, 103, 116, 104, 59, 32, 112, 97, 99, 107, 101, 116, 32, 105, 103, 110, 111, 114, 101, 100 >>,
                      NeededActual(err))
      [] err.kind = "UnsupportedOpCode" ->
            Violation(<< 76, 83, 45, 65, 82, 84, 78, 69, 84, 45, 79, 80, 67, 79, 68, 69 >>, STR_ERROR,
                      << 85, 110, 115, 117, 112, 112, 111, 114, 116, 101, 100, 32, 65, 114, 116, 45, 78, 101, 116, 32, 111, 112, 99, 111, 100, 101, 59, 32, 112, 97, 99, 107, 101, 116, 32, 105, 103, 110, 111, 114, 101, 100 >>,
                      << 111, 112, 99, 111, 100, 101, 61 >> \o FormatHex(err.opcode, 4))

\* Lines 175-191.
sacn_port_violation(udp) ==
    Violation(<< 76, 83, 45, 83, 65, 67, 78, 45, 80, 79, 82, 84 >>, STR_WARNING,
              << 78, 111, 110, 45, 115, 116, 97, 110, 100, 97, 114, 100, 32, 115, 65, 67, 78, 32, 112, 111, 114, 116, 59, 32, 112, 97, 99, 107, 101, 116, 32, 97, 99, 99, 101, 112, 116, 101, 100 >>, PortsExample(udp))

\* Lines 216-333.
sacn_error_violation(err) ==
    CASE err.kind = "InvalidStartCode" ->
            Violation(<< 76, 83, 45, 83, 65, 67, 78, 45, 83, 84, 65, 82, 84, 45, 67, 79, 68, 69 >>, STR_ERROR,
                      << 73, 110, 118, 97, 108, 105, 100, 32, 115, 65, 67, 78, 32, 115, 116, 97, 114, 116, 32, 99, 111, 100, 101, 59, 32, 112, 97, 99, 107, 101, 116, 32, 105, 103, 110, 111, 114, 101, 100 >>,
                      << 118, 97, 108, 117, 101, 61 >> \o FormatDec(err.value))
      [] err.kind = "InvalidPropertyValueCount" ->
            Violation(<< 76, 83, 45, 83, 65, 67, 78, 45, 80, 82, 79, 80, 69, 82, 84, 89, 45, 67, 79, 85, 78, 84 >>, STR_ERROR,
                      << 73, 110, 118, 97, 108, 105, 100, 32, 115, 65, 67, 78, 32, 112, 114, 111, 112, 101, 114, 116, 121, 32, 118, 97, 108, 117, 101, 32, 99, 111, 117, 110, 116, 59, 32, 112, 97, 99, 107, 101, 116, 32, 105, 103, 110, 111, 114, 101, 100 >>,
                      << 99, 111, 117, 110, 116, 61 >> \o FormatDec(err.count))
      [] err.kind = "InvalidDmxLength" ->
            Violation(<< 76, 83, 45, 83, 65, 67, 78, 45, 68, 77, 88, 45, 76, 69, 78, 71, 84, 72 >>, STR_ERROR,
                      << 73, 110, 118, 97, 108, 105, 100, 32, 115, 65, 67, 78, 32, 68, 77, 88, 32, 100, 97, 116, 97, 32, 108, 101, 110, 103, 116, 104, 59, 32, 112, 97, 99, 107, 101, 116, 32, 105, 103, 110, 111, 114, 101, 100 >>,
                      << 108, 101, 110, 103, 116, 104, 61 >> \o FormatDec(err.length))
      [] err.kind = "TooShort" ->
            Violation(<< 76, 83, 45, 83, 65, 67, 78, 45, 84, 79, 79, 45, 83, 72, 79, 82, 84 >>, STR_ERROR,
                      << 73, 110, 118, 97, 108, 105, 100, 32, 115, 65, 67, 78, 32, 112, 97, 121, 108, 111, 97, 100, 32, 108, 101, 110, 103, 116, 104, 59, 32, 112, 97, 99, 107, 101, 116, 32, 105, 103, 110, 111, 114, 101, 100 >>,
                      NeededActual(err))
      [] err.kind = "InvalidAcnPid" ->
            Violation(<< 76, 83, 45, 83, 65, 67, 78, 45, 65, 67, 78, 45, 80, 73, 68 >>, STR_ERROR,
                      << 73, 110, 118, 97, 108, 105, 100, 32, 115, 65, 67, 78, 32, 65, 67, 78, 32, 80, 73, 68, 59, 32, 112, 97, 99, 107, 101, 116, 32, 105, 103, 110, 111, 114, 101, 100 >>,
                      << 97, 99, 110, 95, 112, 105, 100, 61, 105, 110, 118, 97, 108, 105, 100 >>)
      [] err.kind = "InvalidRootVector" ->
            Violation(<< 76, 83, 45, 83, 65, 67, 78, 45, 82, 79, 79, 84, 45, 86, 69, 67, 84, 79, 82 >>, STR_ERROR,
                      << 73, 110, 118, 97, 108, 105, 100, 32, 115, 65, 67, 78, 32, 114, 111, 111, 116, 32, 118, 101, 99, 116, 111, 114, 59, 32, 112, 97, 99, 107, 101, 116, 32, 105, 103, 110, 111, 114, 101, 100 >>,
                      << 118, 97, 108, 117, 101, 61 >> \o FormatHex(err.value, 8))
      [] err.kind = "InvalidFramingVector" ->
            Violation(<< 76, 83, 45, 83, 65, 67, 78, 45, 70, 82, 65, 77, 73, 78, 71, 45, 86, 69, 67, 84, 79, 82 >>, STR_ERROR,
                      << 73, 110, 118, 97, 108, 105, 100, 32, 115, 65, 67, 78, 32, 102, 114, 97, 109, 105, 110, 103, 32, 118, 101, 99, 116, 111, 114, 59, 32, 112, 97, 99, 107, 101, 116, 32, 105, 103, 110, 111, 114, 101, 100 >>,
                      << 118, 97, 108, 117, 101, 61 >> \o FormatHex(err.value, 8))
      [] err.kind = "InvalidDmpVector" ->
            Violation(<< 76, 83, 45, 83, 65, 67, 78, 45, 68, 77, 80, 45, 86, 69, 67, 84, 79, 82 >>, STR_ERROR,
                      << 73, 110, 118, 97, 108, 105, 100, 32, 115, 65, 67, 78, 32, 68, 77, 80, 32, 118, 101, 99, 116, 111, 114, 59, 32, 112, 97, 99, 107, 101, 116, 32, 105, 103, 110, 111, 114, 101, 100 >>,
                      << 118, 97, 108, 117, 101, 61 >> \o FormatHex(err.value, 2))

\* Lines 338-373; the example is recorded as it is, without a source.
udp_error_violation(err) ==
    CASE err.kind = "Slice" ->
            Violation(<< 76, 83, 45, 85, 68, 80, 45, 83, 76, 73, 67, 69 >>, STR_ERROR,
                      << 73, 110, 118, 97, 108, 105, 100, 32, 85, 68, 80, 32, 115, 108, 105, 99, 101, 59, 32, 112, 97, 99, 107, 101, 116, 32, 105, 103, 110, 111, 114, 101, 100 >>, err.message)
      [] err.kind = "MissingNetworkLayer" ->
            Violation(<< 76, 83, 45, 85, 68, 80, 45, 77, 73, 83, 83, 73, 78, 71, 45, 78, 69, 84, 87, 79, 82, 75 >>, STR_WARNING,
                      << 73, 110, 118, 97, 108, 105, 100, 32, 85, 68, 80, 32, 112, 97, 99, 107, 101, 116, 58, 32, 109, 105, 115, 115, 105, 110, 103, 32, 110, 101, 116, 119, 111, 114, 107, 32, 108, 97, 121, 101, 114, 59, 32, 112, 97, 99, 107, 101, 116, 32, 105, 103, 110, 111, 114, 101, 100 >>,
                      << 109, 105, 115, 115, 105, 110, 103, 32, 110, 101, 116, 119, 111, 114, 107, 32, 108, 97, 121, 101, 114 >>)
      [] err.kind = "MissingIpPayload" ->
            Violation(<< 76, 83, 45, 85, 68, 80, 45, 77, 73, 83, 83, 73, 78, 71, 45, 80, 65, 89, 76, 79, 65, 68 >>, STR_WARNING,
                      << 73, 110, 118, 97, 108, 105, 100, 32, 85, 68, 80, 32, 112, 97, 99, 107, 101, 116, 58, 32, 109, 105, 115, 115, 105, 110, 103, 32, 73, 80, 32, 112, 97, 121, 108, 111, 97, 100, 59, 32, 112, 97, 99, 107, 101, 116, 32, 105, 103, 110, 111, 114, 101, 100 >>,
                      << 109, 105, 115, 115, 105, 110, 103, 32, 73, 80, 32, 112, 97, 121, 108, 111, 97, 100 >>)
      [] err.kind = "TooShort" ->
            Violation(<< 76, 83, 45, 85, 68, 80, 45, 84, 79, 79, 45, 83, 72, 79, 82, 84 >>, STR_ERROR,
                      << 73, 110, 118, 97, 108, 105, 100, 32, 85, 68, 80, 32, 112, 97, 121, 108, 111, 97, 100, 32, 108, 101, 110, 103, 116, 104, 59, 32, 112, 97, 99, 107, 101, 116, 32, 105, 103, 110, 111, 114, 101, 100 >>,
                      NeededActual(err))

\* record_violation with the example built from the sending endpoint.
record_sourced(comp, protocol, v, udp, ts) ==
    record_violation(comp, protocol, v.id, v.severity, v.message,
        format_violation_example(v.base, Some(<< udp.src_ip, udp.src_port >>), ts))

----------------------------------------------------------------------------
(* analyze_source: one turn of the packet loop (analysis/mod.rs, 59-375) *)

\* The locals a decoder branch can change.
Locals ==
    [ compliance |-> compliance, artnet_stats |-> artnet_stats,
      sacn_stats |-> sacn_stats, states |-> states, dmx_store |-> dmx_store,
      calls |-> << >> ]

\* The reconstructed frame of a decoded packet: the aggregator call, the
\* state store call and the push of the frame (lines 83-103, 192-213).
store_frame(L, universe, source_id, protocol, slots, ts) ==
    LET key == DmxStateKey(universe, source_id, protocol)
        st == apply_partial(L.states, key, slots)
    IN  [L EXCEPT
           !.states = st,
           !.dmx_store = dmx_store_push(@,
               [ universe |-> universe, timestamp |-> ts, source_id |-> source_id,
                 protocol |-> protocol, slots |-> st[key] ])]

\* A port test that warns as soon as one of the two ports is not standard.
port_mismatch_either(udp, port) == udp.src_port /= port \/ udp.dst_port /= port

\* if udp.src_port != PORT && udp.dst_port != PORT (lines 66 and 174).
port_mismatch(udp, port) == udp.src_port /= port /\ udp.dst_port /= port

\* The locals with one more call in the log of the event.
log_call(L, name) == [L EXCEPT !.calls = Append(@, name)]

\* match parse_artdmx(udp.payload), lines 64-171.
artnet_branch(L, udp, ts) ==
    LET parsed == parse_artdmx(udp.payload)
    IN  IF parsed.tag = "Err"
        THEN [L EXCEPT !.compliance =
                 record_sourced(@, STR_ARTNET, artnet_error_violation(parsed.err), udp, ts)]
        ELSE IF IsNone(parsed.value) THEN L
        ELSE LET art == Unwrap(parsed.value)
                 L1 == IF port_mismatch(udp, ARTNET_PORT)
                       THEN [L EXCEPT !.compliance =
                                record_sourced(@, STR_ARTNET, artnet_port_violation(udp), udp, ts)]
                       ELSE L
                 L2 == [L1 EXCEPT !.artnet_stats =
                           add_artnet_frame(@, art.universe, udp.src_ip, udp.src_port,
                                            art.sequence, ts)]
             IN  store_frame(L2, art.universe,
                             artnet_source_id(udp.src_ip, udp.src_port),
                             "ArtNet", art.slots, ts)

\* A loop that tries the sACN decoder only when the Art-Net decoder did
\* not fail.
sacn_branch_unless_artnet_failed(L, udp, ts) ==
    LET parsed == parse_sacn_dmx(udp.payload)
    IN  IF parse_artdmx(udp.payload).tag = "Err" THEN L
        ELSE IF parsed.tag = "Err"
        THEN [L EXCEPT !.compliance =
                 record_sourced(@, STR_SACN, sacn_error_violation(parsed.err), udp, ts)]
        ELSE IF IsNone(parsed.value) THEN L
        ELSE LET sacn == Unwrap(parsed.value)
                 L1 == IF port_mismatch(udp, SACN_PORT)
                       THEN [L EXCEPT !.compliance =
                                record_sourced(@, STR_SACN, sacn_port_violation(udp), udp, ts)]
                       ELSE L
                 L2 == [L1 EXCEPT !.sacn_stats =
                           add_sacn_frame(@, sacn.universe, udp.src_ip, udp.src_port,
                                          sacn.cid, sacn.source_name, sacn.sequence, ts)]
             IN  store_frame(L2, sacn.universe,
                             sacn_source_id(sacn.cid, udp.src_ip, udp.src_port),
                             "Sacn", sacn.slots, ts)

\* match parse_sacn_dmx(udp.payload), lines 172-334.
sacn_branch(L, udp, ts) ==
    LET parsed == parse_sacn_dmx(udp.payload)
    IN  IF parsed.tag = "Err"
        THEN [L EXCEPT !.compliance =
                 record_sourced(@, STR_SACN, sacn_error_violation(parsed.err), udp, ts)]
        ELSE IF IsNone(parsed.value) THEN L
        ELSE LET sacn == Unwrap(parsed.value)
                 L1 == IF port_mismatch(udp, SACN_PORT)
                       THEN [L EXCEPT !.compliance =
                                record_sourced(@, STR_SACN, sacn_port_violation(udp), udp, ts)]
                       ELSE L
                 L2 == [L1 EXCEPT !.sacn_stats =
                           add_sacn_frame(@, sacn.universe, udp.src_ip, udp.src_port,
                                          sacn.cid, sacn.source_name, sacn.sequence, ts)]
             IN  store_frame(L2, sacn.universe,
                             sacn_source_id(sacn.cid, udp.src_ip, udp.src_port),
                             "Sacn", sacn.slots, ts)

\* The body of the while loop for the event PacketEvent { ts, linktype, data }.
AnalyzePacket(ts, linktype, data) ==
    LET bounds == update_ts_bounds(first_ts, last_ts, ts)
        udp == parse_udp_packet(linktype, data)
        decoded == udp.tag = "Ok" /\ IsSome(udp.value)
        L == IF decoded
             THEN log_call(
                      sacn_branch(
                          log_call(artnet_branch(log_call(Locals, "parse_artdmx"),
                                                 Unwrap(udp.value), ts),
                                   "parse_sacn_dmx"),
                          Unwrap(udp.value), ts),
                      "add_flow_stats")
             ELSE IF udp.tag = "Err"
             THEN LET v == udp_error_violation(udp.err)
                  IN  [Locals EXCEPT !.compliance =
                          record_violation(@, STR_UDP, v.id, v.severity, v.message, v.base)]
             ELSE Locals
    IN  /\ IsNone(report)
        /\ IsNone(analysis_error)
        /\ packets_total' = packets_total + 1
        /\ first_ts' = bounds[1]
        /\ last_ts' = bounds[2]
        /\ compliance' = L.compliance
        /\ artnet_stats' = L.artnet_stats
        /\ sacn_stats' = L.sacn_stats
        /\ states' = L.states
        /\ dmx_store' = L.dmx_store
        /\ flow_stats' = IF decoded
                         THEN add_flow_stats(flow_stats, Unwrap(udp.value), ts)
                         ELSE flow_stats
        /\ last_calls' = L.calls
        /\ UNCHANGED <<followVars, callVars, outVars>>

----------------------------------------------------------------------------
(* analyze_source: the report (analysis/mod.rs, lines 377-409) *)

DEFAULT_GENERATED_AT == << 49, 57, 55, 48, 45, 48, 49, 45, 48, 49, 84, 48, 48, 58, 48, 48, 58, 48, 48, 90 >>

\* An order by protocol name first.
universe_sort_key_proto_first(u) == u.proto \o << u.universe >>

\* universes.sort_by, lines 400-404: by universe, then by protocol name.
universe_sort_key(u) == << u.universe >> \o u.proto

\* The report a run returns when its hash maps iterate in the order `seed`.
\* The conflicts of one map holding the sources of both protocols.
protocol_conflicts_merged(artnet, sacn, seed) ==
    build_conflicts(
        [u \in DOMAIN artnet \cup DOMAIN sacn |->
            IF u \notin DOMAIN sacn THEN artnet[u]
            ELSE IF u \notin DOMAIN artnet THEN sacn[u]
            ELSE [artnet[u] EXCEPT !.per_source =
                    [k \in DOMAIN artnet[u].per_source \cup DOMAIN sacn[u].per_source |->
                        IF k \in DOMAIN artnet[u].per_source
                        THEN artnet[u].per_source[k]
                        ELSE sacn[u].per_source[k]]]],
        seed)

\* Lines 394-396: build_conflicts on the Art-Net map, extended with
\* build_conflicts on the sACN map.
protocol_conflicts(artnet, sacn, seed) ==
    build_conflicts(artnet, seed) \o build_conflicts(sacn, seed)

BuildReport(seed) ==
    LET time_start == ts_to_rfc3339(first_ts)
        time_end == ts_to_rfc3339(last_ts)
        artnet_universes == build_universe_summaries(artnet_stats, dmx_store,
                                "ArtNet", STR_ARTNET, seed)
        sacn_universes == build_universe_summaries(sacn_stats, dmx_store,
                                "Sacn", STR_SACN, seed)
    IN  [ generated_at |-> IF IsSome(time_end) THEN Unwrap(time_end)
                           ELSE IF IsSome(time_start) THEN Unwrap(time_start)
                           ELSE DEFAULT_GENERATED_AT,
          capture_summary |-> Some([ packets_total |-> packets_total,
                                     time_start |-> time_start,
                                     time_end |-> time_end ]),
          conflicts |-> protocol_conflicts(artnet_stats, sacn_stats, seed),
          flows |-> build_flow_summaries(flow_stats, seed),
          universes |-> StableSortByKey(artnet_universes \o sacn_universes,
                            universe_sort_key),
          compliance |-> finalize_compliance(compliance, seed) ]

\* The source is exhausted: the report is built.  report_rerun is the
\* report of a second run over the same events, whose maps may iterate
\* in another order.
Finalize ==
    /\ IsNone(report)
    /\ IsNone(analysis_error)
    /\ \E seed \in 0..MaxHashSeed, seed_rerun \in 0..MaxHashSeed :
          /\ report' = Some(BuildReport(seed))
          /\ report_rerun' = Some(BuildReport(seed_rerun))
    /\ UNCHANGED <<followVars, states, callVars, artnet_stats, loopVars, analysis_error,
                   clock, hist>>

\* A loop that takes a source error for the end of the capture.
source_error_swallowed(e) == None

\* source.next_packet()? on Err(e): the `?` converts the SourceError with
\* From (the #[from] of AnalysisError::Source) and returns it.
source_error_result(e) == Some([ variant |-> "Source", source |-> e ])

\* The source fails: analyze_source returns the error, no report is built.
SourceFails(e) ==
    /\ IsNone(report)
    /\ IsNone(analysis_error)
    /\ analysis_error' = source_error_result(e)
    /\ UNCHANGED <<followVars, states, callVars, artnet_stats, loopVars, report,
                   report_rerun, clock>>

\* path.metadata()? on Err (line 377): the source is exhausted, the size of
\* the capture file cannot be read, the std::io::Error is returned through
\* AnalysisError::Io and no report is built.
MetadataFails ==
    /\ IsNone(report)
    /\ IsNone(analysis_error)
    /\ analysis_error' = Some([ variant |-> "Io", source |-> [ variant |-> "Metadata" ] ])
    /\ UNCHANGED <<followVars, states, callVars, artnet_stats, loopVars, report,
                   report_rerun, clock>>

----------------------------------------------------------------------------
(* The locals of analyze_source (analysis/mod.rs, lines 49-57) *)

\* No follow loop runs: analyze_source is called directly.
NoFollow ==
    /\ follow = << >>
    /\ capture = << >>
    /\ report_file = None

InitLocals ==
    /\ packets_total = 0
    /\ first_ts = None
    /\ last_ts = None
    /\ flow_stats = << >>
    /\ artnet_stats = << >>
    /\ sacn_stats = << >>
    /\ dmx_store = << >>
    /\ states = << >>
    /\ compliance = << >>
    /\ report = None
    /\ report_rerun = None
    /\ analysis_error = None
    /\ last_calls = << >>

----------------------------------------------------------------------------
(* Direct use of the store, as in the unit tests of analysis/dmx.rs *)

MaxCalls == 3

\* The partials the calls are made with: a length and a byte pattern.
PartialShapes == { <<0, 10>>, <<2, 10>>, <<2, 200>>, <<5, 200>>, <<513, 10>> }
PartialByte(seed, i) == (seed + i) % 256
Fill(len, seed) == [i \in 1..len |-> PartialByte(seed, i)]

DmxTestKeys ==
    { DmxStateKey(1, "source:example", "ArtNet"),
      DmxStateKey(1, "source:example", "Sacn") }

InitDmx ==
    /\ NoFollow
    /\ InitLocals
    /\ dmx_ret = ZeroImage
    /\ dmx_calls = << >>
    /\ parse_ret = None
    /\ clock = 0
    /\ hist = << >>

\* One call of apply_partial; dmx_calls records its key and its partial
\* (by length and pattern).
ApplyPartialCall ==
    /\ Len(dmx_calls) < MaxCalls
    /\ \E key \in DmxTestKeys, shape \in PartialShapes :
          /\ states' = apply_partial(states, key, Fill(shape[1], shape[2]))
          /\ dmx_ret' = states'[key]
          /\ dmx_calls' = Append(dmx_calls,
                [key |-> key, len |-> shape[1], seed |-> shape[2]])
    /\ UNCHANGED <<followVars, parse_ret, artnet_stats, loopVars, outVars, clock, hist>>

NextDmx == ApplyPartialCall

SpecDmx == InitDmx /\ [][NextDmx]_vars

\* The value at index k written by the latest of the calls 1..j made with
\* `key` whose partial covers k (k < min(|P|, 512)); 0 when there is none.
RECURSIVE LatestWritten(_, _, _, _)
LatestWritten(calls, key, k, j) ==
    IF j = 0 THEN 0
    ELSE IF /\ calls[j].key = key
            /\ k < Min(calls[j].len, 512)
         THEN PartialByte(calls[j].seed, k + 1)
         ELSE LatestWritten(calls, key, k, j - 1)

\* C1: the image returned by the n-th apply_partial call on a key holds at
\* every index k the value of the latest call on that key whose partial
\* covers k (k < min(|P_j|, 512)), and 0 where no call has covered k.
C1_ReturnedImageIsLatestWrite ==
    dmx_calls /= << >> =>
        LET n == Len(dmx_calls)
            key == dmx_calls[n].key
        IN  \A k \in 0..511 :
                dmx_ret[k + 1] = LatestWritten(dmx_calls, key, k, n)

\* Three calls on one key: a 513-byte partial (clamped to 512), then a
\* 5-byte and a 2-byte one with other values; the returned image holds
\* the third call's value at index 0, the second's at index 3 and the
\* first's at index 511.
C1_Witness ==
    /\ Len(dmx_calls) = 3
    /\ dmx_calls[1].key = dmx_calls[3].key
    /\ dmx_calls[2].key = dmx_calls[3].key
    /\ dmx_calls[1].len = 513 /\ dmx_calls[1].seed = 10
    /\ dmx_calls[2].len = 5 /\ dmx_calls[2].seed = 200
    /\ dmx_calls[3].len = 2 /\ dmx_calls[3].seed = 10
    /\ dmx_ret[1] = 11
    /\ dmx_ret[4] = 204
    /\ dmx_ret[512] = 10

----------------------------------------------------------------------------
(* Direct use of the aggregator, as in the unit tests of                   *)
(* analysis/universes.rs: one source sending sequenced frames              *)

SrcIpA == << 10, 0, 0, 1 >>
SrcIpB == << 10, 0, 0, 2 >>

MaxFrames == 5

\* How far the sequence number moves from one frame to the next (1 is the
\* expected successor, 0 a duplicate) and how much later the frame arrives.
SeqSteps == { 0, 1, 3, 4, 8 }
FrameDeltas == { 1 * TICKS_PER_S, 5 * TICKS_PER_S }

InitCalls ==
    /\ NoFollow
    /\ dmx_ret = << >>
    /\ dmx_calls = << >>
    /\ parse_ret = None
    /\ clock = 0
    /\ hist = << >>

InitSeq == InitLocals /\ InitCalls

\* One add_artnet_frame call for the next frame of the source; the first
\* frame has sequence 1 and timestamp 0.
AddSequencedFrame ==
    /\ Len(hist) < MaxFrames
    /\ \E step \in SeqSteps, delta \in FrameDeltas :
          LET seq == IF hist = << >> THEN 1
                     ELSE (hist[Len(hist)].sequence + step) % 256
              ts == IF hist = << >> THEN 0 ELSE clock + delta
          IN  /\ artnet_stats' = add_artnet_frame(artnet_stats, 1, SrcIpA,
                                     ARTNET_PORT, Some(seq), Some(ts))
              /\ clock' = ts
              /\ hist' = Append(hist, [sequence |-> seq, ts |-> ts])
    /\ UNCHANGED <<followVars, states, callVars, loopVars, outVars>>

NextSeq == AddSequencedFrame

SpecSeq == InitSeq /\ [][NextSeq]_vars

\* The gap in front of frame i of hist and the loss bookkeeping it implies.
HistGap(i) == (hist[i].sequence + 256 - hist[i - 1].sequence - 1) % 256
HistLossy(i) == i >= 2 /\ HistGap(i) \in 1..127
RECURSIVE HistRun(_)
HistRun(i) == IF HistLossy(i) THEN HistGap(i) + HistRun(i - 1) ELSE 0
HistLossSum == SumSeq([i \in 1..Len(hist) |-> IF HistLossy(i) THEN HistGap(i) ELSE 0])
HistBursts == Cardinality({ i \in 2..Len(hist) : HistLossy(i) /\ ~HistLossy(i - 1) })
HistMaxRun == LET runs == { HistRun(i) : i \in 1..Len(hist) }
              IN  CHOOSE m \in runs : \A r \in runs : r <= m

SeqMetrics == compute_metrics(artnet_stats[1].per_source)

\* C3: for one source whose sequenced frames (two or more) all lie within
\* one 10 s window, the reported loss_packets is the sum of the lossy gaps
\* (0 < gap < 128), burst_count the number of maximal runs of consecutive
\* lossy frames and max_burst_len the largest sum of one run.
C3_LossAndBurstsWithinWindow ==
    ( /\ Len(hist) >= 2
      /\ hist[Len(hist)].ts - hist[1].ts <= 10 * TICKS_PER_S )
    => /\ SeqMetrics.loss_packets = Some(HistLossSum)
       /\ SeqMetrics.burst_count = Some(HistBursts)
       /\ SeqMetrics.max_burst_len = Some(HistMaxRun)

\* Sequences 1, 2, 5, 6, 10 one second apart: 5 lost, 2 bursts, longest 3.
C3_Witness ==
    /\ Len(hist) = 5
    /\ [i \in 1..5 |-> hist[i].sequence] = << 1, 2, 5, 6, 10 >>
    /\ hist[5].ts = 4 * TICKS_PER_S
    /\ SeqMetrics.loss_packets = Some(5)
    /\ SeqMetrics.burst_count = Some(2)
    /\ SeqMetrics.max_burst_len = Some(3)

RingIsFresh(samples, now, TsOf(_)) ==
    \A i \in 1..Len(samples) : now - TsOf(samples[i]) <= 10 * TICKS_PER_S

\* C4: once a source's frames up to timestamp T are consumed, none of its
\* loss_samples, burst_start_samples, burst_length_samples and
\* jitter_samples rings holds a sample older than 10 s before T, and the
\* reported loss_packets counts only the gaps of the last 10 s.
C4_NoStaleWindowSample ==
    hist /= << >> =>
        \A id \in DOMAIN artnet_stats[1].per_source :
            LET st == artnet_stats[1].per_source[id]
                T == hist[Len(hist)].ts
            IN  /\ RingIsFresh(st.loss_samples, T, LAMBDA x : x[1])
                /\ RingIsFresh(st.burst_start_samples, T, LAMBDA x : x)
                /\ RingIsFresh(st.burst_length_samples, T, LAMBDA x : x[1])
                /\ RingIsFresh(st.jitter_samples, T, LAMBDA x : x[1])
                /\ Len(hist) >= 2 =>
                      SeqMetrics.loss_packets = Some(SumSeq([i \in 1..Len(hist) |->
                          IF HistLossy(i) /\ T - hist[i].ts <= 10 * TICKS_PER_S
                          THEN HistGap(i) ELSE 0]))

----------------------------------------------------------------------------
(* Direct use of the aggregator: several sources and build_conflicts *)

MaxConfFrames == 4

ConfEndpoints == { << 1, SrcIpA >>, << 1, SrcIpB >>, << 2, SrcIpB >> }
ConfDeltas == { 1, 2, 3 }

\* One add_artnet_frame call for an unsequenced frame of one endpoint.
AddConflictFrame ==
    /\ Len(hist) < MaxConfFrames
    /\ \E e \in ConfEndpoints, delta \in ConfDeltas :
          LET ts == IF hist = << >> THEN 0 ELSE clock + delta
          IN  /\ artnet_stats' = add_artnet_frame(artnet_stats, e[1], e[2],
                                     ARTNET_PORT, None, Some(ts))
              /\ clock' = ts
              /\ hist' = Append(hist, [universe |-> e[1], ip |-> e[2], ts |-> ts])
    /\ UNCHANGED <<followVars, states, callVars, loopVars, outVars>>

NextConf == AddConflictFrame

SpecConf == InitSeq /\ [][NextConf]_vars

\* The timespan of an endpoint in hist and the overlap of two of them.
HistTimes(u, ip) == { hist[i].ts : i \in { j \in 1..Len(hist) :
                                             hist[j].universe = u /\ hist[j].ip = ip } }
SetMin(S) == CHOOSE m \in S : \A x \in S : m <= x
SetMax(S) == CHOOSE m \in S : \A x \in S : m >= x
HistOverlap(u, a, b) ==
    Max(0, Min(SetMax(HistTimes(u, a)), SetMax(HistTimes(u, b)))
           - Max(SetMin(HistTimes(u, a)), SetMin(HistTimes(u, b))))

\* The conflicts the frames of hist call for: universe, the two source
\* keys in ascending order, the overlap in seconds.
HistConflicts ==
    { << u, << artnet_source_id(SrcIpA, ARTNET_PORT),
               artnet_source_id(SrcIpB, ARTNET_PORT) >>,
         Rat(HistOverlap(u, SrcIpA, SrcIpB), TICKS_PER_S) >> :
      u \in { v \in {1, 2} : /\ HistTimes(v, SrcIpA) /= {}
                             /\ HistTimes(v, SrcIpB) /= {}
                             /\ HistOverlap(v, SrcIpA, SrcIpB) > TICKS_PER_S } }

\* C5: build_conflicts emits a record for two sources of a universe exactly
\* when the overlap of their timespans is strictly more than 1 s: one
\* record per such pair, source keys ascending, overlap_duration_s the
\* overlap.
C5_ConflictIffOverlapOverOneSecond ==
    \A seed \in 0..MaxHashSeed :
        LET cs == build_conflicts(artnet_stats, seed)
        IN  /\ { << cs[i].universe, cs[i].sources, cs[i].overlap_duration_s >> :
                 i \in 1..Len(cs) } = HistConflicts
            /\ Len(cs) = Cardinality(HistConflicts)
            /\ \A i \in 1..Len(cs) : cs[i].conflict_score = cs[i].overlap_duration_s

\* Source A at 0 s and 2.5 s, source B at 1 s and 3 s on universe 1: one
\* record, A before B, overlap 1.5 s.
C5_Witness ==
    /\ Len(hist) = 4
    /\ [i \in 1..4 |-> << hist[i].universe, hist[i].ip, hist[i].ts >>]
         = << << 1, SrcIpA, 0 >>, << 1, SrcIpB, 2 >>, << 1, SrcIpA, 5 >>, << 1, SrcIpB, 6 >> >>
    /\ LET cs == build_conflicts(artnet_stats, 0)
       IN  /\ Len(cs) = 1
           /\ cs[1].universe = 1
           /\ cs[1].sources = << artnet_source_id(SrcIpA, ARTNET_PORT),
                                 artnet_source_id(SrcIpB, ARTNET_PORT) >>
           /\ cs[1].overlap_duration_s = << 3, 2 >>

----------------------------------------------------------------------------
(* analyze_source over captures of well-formed ArtDMX packets of one       *)
(* source on the standard port                                             *)

MaxPackets == 5

\* The DMX slots a packet carries: 10, 20, 30, 40, ...
ArtSlotCounts == { 4, 99, 100 }
SlotValues(n) == [i \in 1..n |-> (10 * i) % 256]

InitRun == InitLocals /\ InitCalls

\* The source yields the next ArtDMX packet, one second after the last
\* one, and the loop body runs on it.
ArtDmxPacket ==
    /\ packets_total < MaxPackets
    /\ \E n \in ArtSlotCounts :
          LET sequence == packets_total + 1
              ts == IF hist = << >> THEN 0 ELSE clock + TICKS_PER_S
              data == build_ipv4_udp_packet(SrcIpA, SrcIpB, ARTNET_PORT, ARTNET_PORT,
                          build_artnet_payload(sequence, SlotValues(n), 1))
          IN  /\ AnalyzePacket(Some(ts), "ETHERNET", data)
              /\ clock' = ts
              /\ hist' = Append(hist, [slots |-> n, sequence |-> sequence, ts |-> ts])

NextArtnet == ArtDmxPacket \/ Finalize

SpecArtnet == InitRun /\ [][NextArtnet]_vars

\* The reconstructed frames of the source, in arrival order.
ArtFrames ==
    IF 1 \in DOMAIN dmx_store
    THEN dmx_store[1][artnet_source_id(SrcIpA, ARTNET_PORT)]
    ELSE << >>

\* C2: in the reconstructed frame of an ArtDMX packet that declares fewer
\* than 512 slots, every slot at or beyond the declared length has the
\* value it had in the source's previous reconstructed frame.
C2_ShortFrameKeepsOtherSlots ==
    \A j \in 2..Len(ArtFrames) :
        \A k \in hist[j].slots..(DMX_MAX_SLOTS - 1) :
            ArtFrames[j].slots[k + 1] = ArtFrames[j - 1].slots[k + 1]

\* C8 as stated: a capture of well-formed ArtDMX packets of one source on
\* port 6454 gives a report with an empty compliance list.
C8_ComplianceListEmpty ==
    IsSome(report) /\ hist /= << >> => Unwrap(report).compliance = << >>

ShortForSacn == { j \in 1..Len(hist) : ARTNET_DMX_DATA_OFFSET + hist[j].slots < 118 }

\* C8, amended: such a capture gives no Art-Net and no UDP entry; the
\* packets whose payload is shorter than 118 bytes are counted by one
\* violation LS-SACN-TOO-SHORT (severity error) of a single sacn entry, and
\* the list is empty when there is no such packet.
C8_OnlySacnTooShortCounted ==
    IsSome(report) =>
        LET c == Unwrap(report).compliance
        IN  IF ShortForSacn = {} THEN c = << >>
            ELSE /\ Len(c) = 1
                 /\ c[1].protocol = STR_SACN
                 /\ Len(c[1].violations) = 1
                 /\ c[1].violations[1].id = << 76, 83, 45, 83, 65, 67, 78, 45, 84, 79, 79, 45, 83, 72, 79, 82, 84 >>
                 /\ c[1].violations[1].severity = STR_ERROR
                 /\ c[1].violations[1].count = Cardinality(ShortForSacn)

\* Scenario S1: five packets of 4 slots at 0..4 s, sequences 1..5; the
\* report holds the sacn entry with count 5.
C8_Witness ==
    /\ IsSome(report)
    /\ Len(hist) = 5
    /\ \A j \in 1..5 : hist[j].slots = 4 /\ hist[j].sequence = j
                        /\ hist[j].ts = (j - 1) * TICKS_PER_S
    /\ Len(Unwrap(report).universes) = 1
    /\ Unwrap(report).universes[1].frames_count = 5
    /\ Len(Unwrap(report).compliance) = 1
    /\ Unwrap(report).compliance[1].violations[1].count = 5

\* A rate within a tenth of one unit per second.
AboutOne(rate) ==
    IF rate[1] >= rate[2] THEN 10 * (rate[1] - rate[2]) <= rate[2]
    ELSE 10 * (rate[2] - rate[1]) <= rate[2]

\* C22 as stated: the five frames of scenario S1, at 0, 1, 2, 3 and 4 s,
\* give a universe summary with frames_count = 5 and an fps of about 1.0.
C22_S1FpsAboutOne ==
    IsSome(report) /\ Len(hist) = 5 =>
        LET u == Unwrap(report).universes[1]
        IN  u.frames_count = 5 /\ IsSome(u.fps) /\ AboutOne(Unwrap(u.fps))

\* C22, amended: a capture of k >= 2 frames of one source, one second
\* apart, gives frames_count = k and fps = k / (k - 1), the k frames of the
\* window over the k - 1 seconds they span; scenario S1 gives 5 and 1.25.
C22_FpsCountsFramesOverSpan ==
    IsSome(report) /\ Len(hist) >= 2 =>
        LET u == Unwrap(report).universes[1]
        IN  /\ Len(Unwrap(report).universes) = 1
            /\ u.proto = STR_ARTNET
            /\ u.frames_count = Len(hist)
            /\ u.fps = Some(Rat(Len(hist), Len(hist) - 1))

\* Scenario S1, reported with fps = 5/4.
C22_Witness ==
    /\ IsSome(report)
    /\ Len(hist) = 5
    /\ \A j \in 1..5 : hist[j].slots = 4 /\ hist[j].ts = (j - 1) * TICKS_PER_S
    /\ Unwrap(report).universes[1].frames_count = 5
    /\ Unwrap(report).universes[1].fps = Some(<< 5, 4 >>)

\* C23: the flow of scenario S1, whose packets are exactly 1 s apart, is
\* reported with a pps of about 1, and its 1 s rate window never counts
\* more than one packet.
C23_S1PpsAboutOne ==
    /\ \A key \in DOMAIN flow_stats : flow_stats[key].window_packets <= 1
    /\ IsSome(report) /\ Len(hist) = 5 =>
          LET f == Unwrap(report).flows
          IN  Len(f) = 1 /\ IsSome(f[1].pps) /\ AboutOne(Unwrap(f[1].pps))

----------------------------------------------------------------------------
(* analyze_source over captures without lighting traffic: UDP datagrams    *)
(* that are neither Art-Net nor sACN, and TCP segments                     *)

MaxOtherPackets == 4

\* The payload lengths of the UDP datagrams (every byte is 'A').
OtherPayloadLens == { 0, 17, 18, 117, 118 }
OtherKinds ==
    [ proto : { "udp" }, len : OtherPayloadLens ] \cup { [ proto |-> "tcp", len |-> 0 ] }
\* The ports of the datagrams and segments: neither is a lighting port.
OtherPorts == [ src |-> 5000, dst |-> 5001 ]
OtherSrcPort == OtherPorts.src
OtherDstPort == OtherPorts.dst

\* A TCP segment over IPv4, as etherparse slices it.
tcp_packet(src_ip, dst_ip, src_port, dst_port) ==
    [ slice_error |-> None,
      net |-> Some([src_ip |-> src_ip, dst_ip |-> dst_ip, ip_payload |-> Some(Zeros(20))]),
      transport |-> Some([proto |-> "tcp", src_port |-> src_port, dst_port |-> dst_port]) ]

OtherPacket ==
    /\ packets_total < MaxOtherPackets
    /\ \E kind \in OtherKinds :
          LET ts == IF hist = << >> THEN 0 ELSE clock + TICKS_PER_S
              data == IF kind.proto = "tcp"
                      THEN tcp_packet(SrcIpA, SrcIpB, OtherSrcPort, OtherDstPort)
                      ELSE build_ipv4_udp_packet(SrcIpA, SrcIpB, OtherSrcPort,
                               OtherDstPort, [i \in 1..kind.len |-> 65])
          IN  /\ AnalyzePacket(Some(ts), "ETHERNET", data)
              /\ clock' = ts
              /\ hist' = Append(hist, [kind |-> kind, ts |-> ts])

NextOther == OtherPacket \/ Finalize

SpecOther == InitRun /\ [][NextOther]_vars

HistUdp == { j \in 1..Len(hist) : hist[j].kind.proto = "udp" }
HistUdpShorter(n) == { j \in HistUdp : hist[j].kind.len < n }
OtherFlowKey ==
    [ src_ip |-> SrcIpA, src_port |-> OtherSrcPort,
      dst_ip |-> SrcIpB, dst_port |-> OtherDstPort ]

\* The flow entry counts exactly the UDP datagrams, and there is no
\* universe record.
OtherFlowsAndUniverses ==
    /\ artnet_stats = << >> /\ sacn_stats = << >> /\ dmx_store = << >>
    /\ DOMAIN flow_stats = IF HistUdp = {} THEN {} ELSE { OtherFlowKey }
    /\ HistUdp /= {} =>
          /\ flow_stats[OtherFlowKey].packets = Cardinality(HistUdp)
          /\ flow_stats[OtherFlowKey].bytes
                = SumSeq([j \in 1..Len(hist) |->
                            IF j \in HistUdp THEN hist[j].kind.len ELSE 0])
    /\ IsSome(report) =>
          /\ Unwrap(report).universes = << >>
          /\ Len(Unwrap(report).flows) = IF HistUdp = {} THEN 0 ELSE 1

\* C9 as stated: a UDP datagram that is neither Art-Net nor sACN, of any
\* payload length, feeds a flow entry and gives no universe record and no
\* violation; a TCP segment gives no flow, no universe and no violation.
C9_NonLightingLeavesNoViolation ==
    /\ OtherFlowsAndUniverses
    /\ compliance = << >>

\* The only violation of `protocol`: `id`, an error, counted `count` times;
\* no entry at all when count is 0.
OnlyViolation(protocol, id, count) ==
    IF count = 0 THEN protocol \notin DOMAIN compliance
    ELSE /\ protocol \in DOMAIN compliance
         /\ Len(compliance[protocol].violations) = 1
         /\ compliance[protocol].violations[1].id = id
         /\ compliance[protocol].violations[1].severity = STR_ERROR
         /\ compliance[protocol].violations[1].count = count

\* C9, amended: such a UDP datagram feeds a flow entry and gives no
\* universe record; it gives no violation when its payload has 118 bytes
\* or more, LS-SACN-TOO-SHORT when it has fewer, and LS-ARTNET-TOO-SHORT as
\* well when it has fewer than 18.  A TCP segment gives no flow, no
\* universe and no violation.
C9_NonLightingShortPayloadsCounted ==
    /\ OtherFlowsAndUniverses
    /\ DOMAIN compliance \subseteq { STR_ARTNET, STR_SACN }
    /\ OnlyViolation(STR_ARTNET, << 76, 83, 45, 65, 82, 84, 78, 69, 84, 45, 84, 79, 79, 45, 83, 72, 79, 82, 84 >>, Cardinality(HistUdpShorter(18)))
    /\ OnlyViolation(STR_SACN, << 76, 83, 45, 83, 65, 67, 78, 45, 84, 79, 79, 45, 83, 72, 79, 82, 84 >>, Cardinality(HistUdpShorter(118)))

\* A 118-byte datagram, a TCP segment, a 17-byte and a 117-byte datagram:
\* one flow of three packets, one Art-Net and two sACN too-short counts.
C9_Witness ==
    /\ IsSome(report)
    /\ [j \in 1..Len(hist) |-> hist[j].kind.len] = << 118, 0, 17, 117 >>
    /\ hist[2].kind.proto = "tcp"
    /\ flow_stats[OtherFlowKey].packets = 3
    /\ compliance[STR_ARTNET].violations[1].count = 1
    /\ compliance[STR_SACN].violations[1].count = 2
    /\ Len(Unwrap(report).flows) = 1

----------------------------------------------------------------------------
(* analyze_source over captures of malformed and misdirected packets *)

MaxErrPackets == 2

\* A port that is neither ARTNET_PORT nor SACN_PORT.
NonStandardPort == ARTNET_PORT + SACN_PORT

ValidSacn == build_sacn_payload(1, << 1, 2 >>, 1)

\* The UDP payloads: one per decode error the decoders can raise, and a
\* well-formed packet of each protocol for the non-standard port.
ErrPayloads ==
    [ short |-> << 1, 2, 3, 4 >>,
      artnet_length_zero |-> build_artnet_payload(1, << >>, 1),
      artnet_truncated |-> SubSeq(build_artnet_payload(1, << 1, 2, 3, 4 >>, 1), 1, 20),
      artnet_valid |-> build_artnet_payload(1, << 1, 2 >>, 1),
      sacn_valid |-> ValidSacn,
      sacn_acn_pid |-> PutBytes(ValidSacn, SACN_ACN_PID_OFFSET, << 0 >>),
      sacn_root_vector |-> PutBytes(ValidSacn, SACN_ROOT_VECTOR_OFFSET, U32BeBytes(1)),
      sacn_framing_vector |-> PutBytes(ValidSacn, SACN_FRAMING_VECTOR_OFFSET, U32BeBytes(1)),
      sacn_dmp_vector |-> PutBytes(ValidSacn, SACN_DMP_VECTOR_OFFSET, << 0 >>),
      sacn_start_code |-> PutBytes(ValidSacn, SACN_START_CODE_OFFSET, << 1 >>),
      sacn_count |-> PutBytes(ValidSacn, SACN_PROPERTY_VALUE_COUNT_OFFSET, U16BeBytes(0)) ]

\* A frame etherparse cannot slice, and a frame that carries no IP packet.
unsliceable_frame ==
    [ slice_error |-> Some(<< 115, 108, 105, 99, 101, 32, 101, 114, 114, 111, 114 >>), net |-> None, transport |-> None ]
non_ip_frame == [ slice_error |-> None, net |-> None, transport |-> None ]

ErrKinds == DOMAIN ErrPayloads \cup { "unsliceable", "non_ip", "tcp" }

ErrPacket ==
    /\ packets_total < MaxErrPackets
    /\ \E kind \in ErrKinds :
          LET ts == IF hist = << >> THEN 0 ELSE clock + TICKS_PER_S
              data == CASE kind = "unsliceable" -> unsliceable_frame
                        [] kind = "non_ip" -> non_ip_frame
                        [] kind = "tcp" -> tcp_packet(SrcIpA, SrcIpB, NonStandardPort,
                                                      NonStandardPort)
                        [] OTHER -> build_ipv4_udp_packet(SrcIpA, SrcIpB, NonStandardPort,
                                        NonStandardPort, ErrPayloads[kind])
          IN  /\ AnalyzePacket(Some(ts), "ETHERNET", data)
              /\ clock' = ts
              /\ hist' = Append(hist, [kind |-> kind, ts |-> ts])

NextErr == ErrPacket \/ Finalize

SpecErr == InitRun /\ [][NextErr]_vars

PortViolationIds == { << 76, 83, 45, 65, 82, 84, 78, 69, 84, 45, 80, 79, 82, 84 >>, << 76, 83, 45, 83, 65, 67, 78, 45, 80, 79, 82, 84 >> }

\* C10: every compliance entry recorded for a decode error of the UDP,
\* Art-Net or sACN decoder has severity "error"; "warning" is the severity
\* of LS-ARTNET-PORT and LS-SACN-PORT only.
C10_DecodeErrorsAreErrors ==
    \A protocol \in DOMAIN compliance :
        \A i \in 1..Len(compliance[protocol].violations) :
            LET v == compliance[protocol].violations[i]
            IN  IF v.id \in PortViolationIds
                THEN v.severity = STR_WARNING
                ELSE v.severity = STR_ERROR

\* The packets of each outcome among those consumed so far.
HistKindCount(kinds) == Cardinality({ j \in 1..Len(hist) : hist[j].kind \in kinds })

\* The kinds that decode as UDP, those the UDP decoder fails on, and the
\* well-formed ArtDMX and sACN packets.
UdpDecodedKinds == DOMAIN ErrPayloads
UdpErrorKinds == { "unsliceable", "non_ip" }
ArtFrameKinds == { "artnet_valid" }
SacnFrameKinds == { "sacn_valid" }

\* The kinds on which neither lighting decoder fails with an error: the
\* only such packet that carries a frame is the well-formed sACN packet
\* (the well-formed ArtDMX packet has 20 bytes and fails the sACN decoder's
\* length check).
NoDecodeErrorFrameKinds == { "sacn_valid" }

FrameTotal(stats) == SumSeq([i \in 1..Len(SetToSeq(DOMAIN stats)) |->
                                stats[SetToSeq(DOMAIN stats)[i]].frames])

\* The number of records of the DMX frame log.
DmxLogLen ==
    Len(Concat([i \in 1..Len(SetToSeq(DOMAIN dmx_store)) |->
            frames_for_universe(dmx_store, SetToSeq(DOMAIN dmx_store)[i], "ArtNet", 0)
            \o frames_for_universe(dmx_store, SetToSeq(DOMAIN dmx_store)[i], "Sacn", 0)]))

FlowPacketTotal == SumSeq([i \in 1..Len(SetToSeq(DOMAIN flow_stats)) |->
                              flow_stats[SetToSeq(DOMAIN flow_stats)[i]].packets])

\* Every packet is consumed, no error is returned in place of the report,
\* and every packet that decodes as UDP is counted in a flow.
AnalysisGoesOn ==
    /\ packets_total = Len(hist)
    /\ IsNone(analysis_error)
    /\ FlowPacketTotal = HistKindCount(UdpDecodedKinds)

UdpErrorChangesNoAggregate ==
    (hist' /= hist /\ hist'[Len(hist')].kind \in UdpErrorKinds)
        => UNCHANGED << flow_stats, artnet_stats, sacn_stats, dmx_store, states >>

\* C11 as stated: a decode error never ends the analysis, a packet the
\* UDP decoder fails on changes no aggregate, and a packet on which the
\* Art-Net or the sACN decoder fails adds no frame to any universe and no
\* record to the DMX frame log.
C11_DecodeErrorDropsPacket ==
    /\ [](/\ AnalysisGoesOn
          /\ FrameTotal(artnet_stats) + FrameTotal(sacn_stats)
                = HistKindCount(NoDecodeErrorFrameKinds)
          /\ DmxLogLen = HistKindCount(NoDecodeErrorFrameKinds))
    /\ [][UdpErrorChangesNoAggregate]_vars

\* C11, amended: a decode error never ends the analysis and a packet the
\* UDP decoder fails on changes no aggregate; a packet on which the
\* Art-Net decoder fails adds no Art-Net frame and a packet on which the
\* sACN decoder fails adds no sACN frame, so the frames and the DMX log
\* records are exactly those of the well-formed ArtDMX and sACN packets
\* (a well-formed ArtDMX packet is counted although the sACN decoder
\* fails on its short payload).
C11_DecodeErrorDropsFrameOfItsProtocol ==
    /\ [](/\ AnalysisGoesOn
          /\ FrameTotal(artnet_stats) = HistKindCount(ArtFrameKinds)
          /\ FrameTotal(sacn_stats) = HistKindCount(SacnFrameKinds)
          /\ DmxLogLen = HistKindCount(ArtFrameKinds \cup SacnFrameKinds))
    /\ [][UdpErrorChangesNoAggregate]_vars

\* An ArtDMX packet of length 0 and then a well-formed sACN packet: the
\* sACN frame is counted, the report is returned.
C11_Witness ==
    /\ IsSome(report)
    /\ [j \in 1..Len(hist) |-> hist[j].kind] = << "artnet_length_zero", "sacn_valid" >>
    /\ FrameTotal(sacn_stats) = 1
    /\ FrameTotal(artnet_stats) = 0
    /\ DmxLogLen = 1
    /\ STR_ARTNET \in DOMAIN compliance


\* The number of violations recorded for `protocol` in the map `comp`.
ViolationTotal(comp, protocol) ==
    IF protocol \notin DOMAIN comp THEN 0
    ELSE SumSeq([i \in 1..Len(comp[protocol].violations) |->
                    comp[protocol].violations[i].count])

\* The kinds the Art-Net decoder fails on with an error; their payloads
\* are shorter than an sACN packet.
ArtErrorKinds == { "short", "artnet_length_zero", "artnet_truncated" }

\* What the loop body does with the event it appends to hist.
DecodersThenFlow ==
    hist' /= hist =>
        LET kind == hist'[Len(hist')].kind
        IN  IF kind \in UdpDecodedKinds
            THEN /\ last_calls' = << "parse_artdmx", "parse_sacn_dmx", "add_flow_stats" >>
                 /\ FlowPacketTotal' = FlowPacketTotal + 1
                 /\ kind \in ArtErrorKinds =>
                       /\ ViolationTotal(compliance', STR_ARTNET)
                              = ViolationTotal(compliance, STR_ARTNET) + 1
                       /\ ViolationTotal(compliance', STR_SACN)
                              = ViolationTotal(compliance, STR_SACN) + 1
            ELSE /\ last_calls' = << >>
                 /\ flow_stats' = flow_stats

\* C13: every packet that decodes as UDP is offered to the Art-Net decoder
\* and then to the sACN decoder, and the flow aggregator is then updated
\* exactly once, whatever the decoders answered: when the Art-Net decoder
\* fails with an error the sACN decoder is still tried (both record their
\* violation) and the packet is still counted in its flow.  A packet that
\* does not decode as UDP reaches no decoder and no flow.
C13_BothDecodersThenFlowOnce == [][DecodersThenFlow]_vars

C13_Witness ==
    /\ Len(hist) = 2
    /\ hist[1].kind = "artnet_length_zero"
    /\ hist[2].kind = "short"
    /\ last_calls = << "parse_artdmx", "parse_sacn_dmx", "add_flow_stats" >>
    /\ ViolationTotal(compliance, STR_ARTNET) = 2
    /\ ViolationTotal(compliance, STR_SACN) = 2
    /\ FlowPacketTotal = 2

----------------------------------------------------------------------------
(* analyze_source over captures mixing Art-Net and sACN sources *)

MaxPerSource == 2

\* A second sACN component identifier: two senders of one host.
cid_bytes_other == [i \in 1..16 |-> 16 - i]

\* Two Art-Net nodes on universe 2 and two sACN components of the host
\* SrcIpA on universe 1.
MixSources ==
    { [ proto |-> "artnet", ip |-> SrcIpA, cid |-> cid_bytes, universe |-> 2 ],
      [ proto |-> "artnet", ip |-> SrcIpB, cid |-> cid_bytes, universe |-> 2 ],
      [ proto |-> "sacn", ip |-> SrcIpA, cid |-> cid_bytes, universe |-> 1 ],
      [ proto |-> "sacn", ip |-> SrcIpA, cid |-> cid_bytes_other, universe |-> 1 ] }

MixPayload(src, sequence) ==
    IF src.proto = "artnet"
    THEN build_artnet_payload(sequence, << sequence, 0 >>, src.universe)
    ELSE PutBytes(build_sacn_payload(sequence, << sequence, 0 >>, src.universe),
                  SACN_CID_OFFSET, src.cid)

\* The sources refresh their universes periodically: each sends one frame
\* per period, in any order within the period.
SentBy(src) == Cardinality({ j \in 1..Len(hist) : hist[j].src = src })

MixPacket ==
    \E src \in MixSources :
        LET sent == SentBy(src)
            port == IF src.proto = "artnet" THEN ARTNET_PORT ELSE SACN_PORT
            ts == IF hist = << >> THEN 0 ELSE clock + 1
            data == build_ipv4_udp_packet(src.ip, SrcIpB, port, port,
                                          MixPayload(src, sent + 1))
        IN  /\ sent < MaxPerSource
            /\ \A other \in MixSources : sent <= SentBy(other)
            /\ AnalyzePacket(Some(ts), "ETHERNET", data)
            /\ clock' = ts
            /\ hist' = Append(hist, [src |-> src, ts |-> ts])

NextMix == MixPacket \/ Finalize

SpecMix == InitRun /\ [][NextMix]_vars

\* C6: the conflicts list of the report is sorted as a whole by universe,
\* then by the joined source keys, whichever protocols the conflicts come
\* from.
C6_ConflictsSortedAsAWhole ==
    IsSome(report) =>
        LET conflicts == Unwrap(report).conflicts
        IN  \A i \in 1..(Len(conflicts) - 1) :
                StrLeq(conflict_sort_key(conflicts[i]), conflict_sort_key(conflicts[i + 1]))

\* C7: analysing the same capture twice gives the same report, whatever
\* order the hash maps are iterated in.
C7_ReportIndependentOfHashOrder ==
    IsSome(report) => report = report_rerun
----------------------------------------------------------------------------
(* SpecSource: a packet source that may fail (source/mod.rs, lines 57-77) *)

MaxSourcePackets == 3

\* enum SourceError { Io(std::io::Error), Pcap(String) }
SourceErrors == { [ variant |-> "Io" ], [ variant |-> "Pcap" ] }

SourceKinds == { "artnet_valid", "sacn_valid", "short", "non_ip" }

\* next_packet returns Ok(Some(event)): the loop body runs on the event.
SourcePacket ==
    /\ packets_total < MaxSourcePackets
    /\ \E kind \in SourceKinds :
          LET ts == IF hist = << >> THEN 0 ELSE clock + TICKS_PER_S
              data == IF kind = "non_ip" THEN non_ip_frame
                      ELSE build_ipv4_udp_packet(SrcIpA, SrcIpB, NonStandardPort,
                               NonStandardPort, ErrPayloads[kind])
          IN  /\ AnalyzePacket(Some(ts), "ETHERNET", data)
              /\ clock' = ts
              /\ hist' = Append(hist, [kind |-> kind, ts |-> ts])

\* next_packet returns Err(e).
SourceError ==
    \E e \in SourceErrors :
        /\ SourceFails(e)
        /\ hist' = Append(hist, [kind |-> "source_error", error |-> e])

\* next_packet returns Ok(None) and the size of the file cannot be read.
MetadataError ==
    /\ MetadataFails
    /\ hist' = Append(hist, [kind |-> "metadata_error"])

NextSource == SourcePacket \/ SourceError \/ MetadataError \/ Finalize

SpecSource == InitRun /\ [][NextSource]_vars

\* The positions of hist where next_packet returned an error.
SourceFailedAt == { k \in 1..Len(hist) : hist[k].kind = "source_error" }

\* C12: when next_packet returns an error, analyze_source stops at once and
\* returns that error as AnalysisError::Source: the failure is the last
\* event of the run, no packet is processed after it, no step changes
\* anything once an error is returned, and no report is produced, whatever
\* packets were processed before.
C12_SourceErrorStopsAnalysis ==
    /\ [](\A k \in SourceFailedAt :
             /\ k = Len(hist)
             /\ packets_total = k - 1
             /\ analysis_error = Some([ variant |-> "Source", source |-> hist[k].error ])
             /\ IsNone(report)
             /\ IsNone(report_rerun))
    /\ [][IsSome(analysis_error) => UNCHANGED vars]_vars

C12_Witness ==
    /\ Len(hist) = 3
    /\ hist[1].kind = "artnet_valid"
    /\ hist[2].kind = "sacn_valid"
    /\ hist[3] = [kind |-> "source_error", error |-> [ variant |-> "Pcap" ]]
    /\ FrameTotal(artnet_stats) = 1
    /\ FrameTotal(sacn_stats) = 1
    /\ analysis_error = Some([ variant |-> "Source", source |-> [ variant |-> "Pcap" ] ])
    /\ IsNone(report)
----------------------------------------------------------------------------
(* SpecPorts: well-formed packets on standard and other ports
   (analysis/mod.rs, lines 65-103 and 173-213) *)

MaxPortPackets == 2

PortChoices == { ARTNET_PORT, SACN_PORT, NonStandardPort }

PortProtocols == { "ArtNet", "Sacn" }

\* The port the protocol is registered on, its compliance entry and the
\* id of its port warning.
StandardPort(proto) == IF proto = "ArtNet" THEN ARTNET_PORT ELSE SACN_PORT
ProtocolName(proto) == IF proto = "ArtNet" THEN STR_ARTNET ELSE STR_SACN
PortWarningId(proto) == IF proto = "ArtNet" THEN << 76, 83, 45, 65, 82, 84, 78, 69, 84, 45, 80, 79, 82, 84 >>
                        ELSE << 76, 83, 45, 83, 65, 67, 78, 45, 80, 79, 82, 84 >>

\* The source yields a well-formed ArtDMX or sACN packet of universe 1
\* between the chosen ports.
PortPacket ==
    /\ packets_total < MaxPortPackets
    /\ \E proto \in PortProtocols, src_port \in PortChoices, dst_port \in PortChoices :
          LET ts == IF hist = << >> THEN 0 ELSE clock + TICKS_PER_S
              payload == IF proto = "ArtNet" THEN ErrPayloads.artnet_valid
                         ELSE ValidSacn
              data == build_ipv4_udp_packet(SrcIpA, SrcIpB, src_port, dst_port, payload)
          IN  /\ AnalyzePacket(Some(ts), "ETHERNET", data)
              /\ clock' = ts
              /\ hist' = Append(hist, [proto |-> proto, src_port |-> src_port,
                                       dst_port |-> dst_port, ts |-> ts])

NextPorts == PortPacket \/ Finalize

SpecPorts == InitRun /\ [][NextPorts]_vars

\* The violations `id` of `protocol` in the map `comp`, and their count.
ViolationsOf(comp, protocol, id) ==
    IF protocol \notin DOMAIN comp THEN << >>
    ELSE SelectSeq(comp[protocol].violations, LAMBDA v : v.id = id)

ViolationCount(comp, protocol, id) ==
    SumSeq([i \in 1..Len(ViolationsOf(comp, protocol, id)) |->
               ViolationsOf(comp, protocol, id)[i].count])

\* What the loop body does with the well-formed packet it appends to hist.
PortWarningIffNeitherPort ==
    hist' /= hist =>
        LET p == hist'[Len(hist')]
            std == StandardPort(p.proto)
            warned == p.src_port /= std /\ p.dst_port /= std
            id == PortWarningId(p.proto)
            name == ProtocolName(p.proto)
        IN  /\ ViolationCount(compliance', name, id)
                  = ViolationCount(compliance, name, id) + (IF warned THEN 1 ELSE 0)
            /\ \A i \in 1..Len(ViolationsOf(compliance', name, id)) :
                  ViolationsOf(compliance', name, id)[i].severity = STR_WARNING
            /\ FrameTotal(artnet_stats')
                  = FrameTotal(artnet_stats) + (IF p.proto = "ArtNet" THEN 1 ELSE 0)
            /\ FrameTotal(sacn_stats')
                  = FrameTotal(sacn_stats) + (IF p.proto = "Sacn" THEN 1 ELSE 0)
            /\ FlowPacketTotal' = FlowPacketTotal + 1

\* C14: for a well-formed ArtDMX (resp. sACN) packet the warning
\* LS-ARTNET-PORT (resp. LS-SACN-PORT) is recorded if and only if neither
\* its source port nor its destination port is 6454 (resp. 5568); with or
\* without the warning the packet is counted as a frame of its universe
\* and as a packet of its flow.
C14_PortWarningIffNeitherPort == [][PortWarningIffNeitherPort]_vars

C14_Witness ==
    /\ Len(hist) = 2
    /\ hist[1].proto = "ArtNet" /\ hist[1].src_port = NonStandardPort
                                /\ hist[1].dst_port = SACN_PORT
    /\ hist[2].proto = "Sacn" /\ hist[2].src_port = NonStandardPort
                              /\ hist[2].dst_port = SACN_PORT
    /\ ViolationCount(compliance, STR_ARTNET, PortWarningId("ArtNet")) = 1
    /\ ViolationCount(compliance, STR_SACN, PortWarningId("Sacn")) = 0
    /\ FrameTotal(artnet_stats) = 1
    /\ FrameTotal(sacn_stats) = 1
    /\ FlowPacketTotal = 2
----------------------------------------------------------------------------
(* SpecRecord: sequences of record_violation calls
   (analysis/mod.rs, lines 439-476 and the tests of lines 541-639) *)

MaxRecordCalls == 4

\* The (protocol, id) arguments: two spellings of one pair and another pair.
RecordKeys ==
    { [ protocol |-> << 32, 65, 114, 116, 78, 101, 116, 32 >>, id |-> << 76, 83, 45, 88 >> ],
      [ protocol |-> << 97, 114, 116, 110, 101, 116 >>, id |-> << 32, 76, 83, 45, 88 >> ],
      [ protocol |-> << 115, 97, 99, 110 >>, id |-> << 76, 83, 45, 88 >> ] }

\* The example arguments: empty, to be trimmed, with a source, plain.
RecordExamples == { << >>, << 97, 32 >>, << 115, 111, 117, 114, 99, 101, 32, 98 >>, << 99 >> }

RecordMessage == << 73, 110, 118, 97, 108, 105, 100, 32, 112, 97, 99, 107, 101, 116, 59, 32, 112, 97, 99, 107, 101, 116, 32, 105, 103, 110, 111, 114, 101, 100 >>

\* One call of record_violation.
RecordCall ==
    /\ Len(hist) < MaxRecordCalls
    /\ \E key \in RecordKeys, example \in RecordExamples :
          /\ compliance' = record_violation(compliance, key.protocol, key.id,
                               STR_ERROR, RecordMessage, example)
          /\ hist' = Append(hist, [ protocol |-> key.protocol, id |-> key.id,
                                    example |-> example ])
    /\ UNCHANGED <<followVars, states, callVars, artnet_stats, sacn_stats, flow_stats, dmx_store,
                   packets_total, first_ts, last_ts, last_calls, outVars, clock>>

NextRecord == RecordCall

SpecRecord == InitRun /\ [][NextRecord]_vars

\* The pair a call is recorded under, and the calls made for a pair.
CallPair(call) == << ToAsciiLowercase(Trim(call.protocol)), Trim(call.id) >>

CallsFor(pair) == SelectSeq(hist, LAMBDA call : CallPair(call) = pair)

\* The normalized examples of the calls made for a pair, in arrival order.
ArrivalExamples(pair) ==
    [ i \in 1..Len(CallsFor(pair)) |-> normalize_example(Trim(CallsFor(pair)[i].example)) ]

\* The first occurrence of each element of s, in order.
RECURSIVE FirstDistinct(_)
FirstDistinct(s) ==
    IF s = << >> THEN << >>
    ELSE LET init == FirstDistinct(SubSeq(s, 1, Len(s) - 1))
         IN  IF Contains(init, s[Len(s)]) THEN init ELSE Append(init, s[Len(s)])

RecordedPairs == { CallPair(hist[i]) : i \in 1..Len(hist) }

\* C15: after any sequence of record_violation calls there is exactly one
\* violation per (protocol, id) pair, the protocol lowercased and both
\* trimmed as the recorder does; its count is the number of calls made for
\* the pair, and its examples are the first distinct normalized examples of
\* those calls in arrival order, three at most and without duplicate, later
\* distinct examples being dropped while the count goes on.
C15_OneViolationPerPair ==
    /\ DOMAIN compliance = { pair[1] : pair \in RecordedPairs }
    /\ \A protocol \in DOMAIN compliance :
          LET violations == compliance[protocol].violations
          IN  /\ \A i \in 1..Len(violations) :
                    << protocol, violations[i].id >> \in RecordedPairs
              /\ \A pair \in RecordedPairs :
                    pair[1] = protocol =>
                        LET hits == { i \in 1..Len(violations) : violations[i].id = pair[2] }
                            v == violations[CHOOSE i \in hits : TRUE]
                            distinct == FirstDistinct(ArrivalExamples(pair))
                        IN  /\ Cardinality(hits) = 1
                            /\ v.count = Len(CallsFor(pair))
                            /\ Len(v.examples) <= 3
                            /\ v.examples = SubSeq(distinct, 1, Min(3, Len(distinct)))

C15_Witness ==
    /\ Len(hist) = 4
    /\ \A i \in 1..4 : CallPair(hist[i]) = << STR_ARTNET, << 76, 83, 45, 88 >> >>
    /\ hist[1].protocol /= hist[2].protocol
    /\ Len(FirstDistinct(ArrivalExamples(<< STR_ARTNET, << 76, 83, 45, 88 >> >>))) = 4
    /\ Len(compliance[STR_ARTNET].violations) = 1
    /\ compliance[STR_ARTNET].violations[1].count = 4
    /\ Len(compliance[STR_ARTNET].violations[1].examples) = 3
----------------------------------------------------------------------------
(* SpecFinalize: finalize_compliance after record_violation calls
   (analysis/mod.rs, lines 412-437 and the test of lines 641-677) *)

MaxFinalizeCalls == 3

FinalizeProtocols == { STR_SACN, STR_ARTNET }

STR_INFO == << 105, 110, 102, 111 >>

\* The (id, severity) arguments: two errors, a warning and another severity.
FinalizeViolations ==
    { [ id |-> << 76, 83, 45, 68 >>, severity |-> STR_ERROR ],
      [ id |-> << 76, 83, 45, 67 >>, severity |-> STR_ERROR ],
      [ id |-> << 76, 83, 45, 66 >>, severity |-> STR_WARNING ],
      [ id |-> << 76, 83, 45, 65 >>, severity |-> STR_INFO ] }

FinalizeExamples == { << 115, 111, 117, 114, 99, 101, 32, 98 >>, << 115, 111, 117, 114, 99, 101, 32, 97 >> }

\* One call of record_violation before the report is built.
RecordSeverityCall ==
    /\ IsNone(report)
    /\ Len(hist) < MaxFinalizeCalls
    /\ \E protocol \in FinalizeProtocols, v \in FinalizeViolations,
          example \in FinalizeExamples :
          /\ compliance' = record_violation(compliance, protocol, v.id, v.severity,
                               RecordMessage, example)
          /\ hist' = Append(hist, [ protocol |-> protocol, id |-> v.id,
                                    severity |-> v.severity, example |-> example ])
    /\ UNCHANGED <<followVars, states, callVars, artnet_stats, sacn_stats, flow_stats, dmx_store,
                   packets_total, first_ts, last_ts, last_calls, outVars, clock>>

NextFinalize == RecordSeverityCall \/ Finalize

SpecFinalize == InitRun /\ [][NextFinalize]_vars

\* error < warning < any other severity.
RankOfSeverity(severity) ==
    CASE severity = STR_ERROR -> 0
      [] severity = STR_WARNING -> 1
      [] OTHER -> 2

SeqToSet(s) == { s[i] : i \in 1..Len(s) }

\* C16: finalize_compliance returns the protocols in ascending name order;
\* within each protocol the violations are ordered by (severity rank, id)
\* with error < warning < any other severity, and the examples of each
\* violation are in ascending lexicographic order; every recorded violation
\* is returned with its count and its set of examples unchanged.
C16_FinalizeSortsAndKeeps ==
    IsSome(report) =>
        LET out == Unwrap(report).compliance
        IN  /\ Len(out) = Cardinality(DOMAIN compliance)
            /\ \A i \in 1..Len(out) : out[i].protocol \in DOMAIN compliance
            /\ \A i, j \in 1..Len(out) :
                  i < j => StrLess(out[i].protocol, out[j].protocol)
            /\ \A k \in 1..Len(out) :
                  LET vs == out[k].violations
                      recorded == compliance[out[k].protocol].violations
                  IN  /\ Len(vs) = Len(recorded)
                      /\ \A i, j \in 1..Len(vs) :
                            i < j =>
                                \/ RankOfSeverity(vs[i].severity) < RankOfSeverity(vs[j].severity)
                                \/ /\ RankOfSeverity(vs[i].severity) = RankOfSeverity(vs[j].severity)
                                   /\ StrLess(vs[i].id, vs[j].id)
                      /\ \A i \in 1..Len(vs) :
                            /\ \A a, b \in 1..Len(vs[i].examples) :
                                  a < b => StrLess(vs[i].examples[a], vs[i].examples[b])
                            /\ \E r \in 1..Len(recorded) :
                                  /\ recorded[r].id = vs[i].id
                                  /\ recorded[r].severity = vs[i].severity
                                  /\ recorded[r].message = vs[i].message
                                  /\ recorded[r].count = vs[i].count
                                  /\ Len(recorded[r].examples) = Len(vs[i].examples)
                                  /\ SeqToSet(recorded[r].examples) = SeqToSet(vs[i].examples)

C16_Witness ==
    /\ IsSome(report)
    /\ Len(hist) = 3
    /\ hist[1] = [ protocol |-> STR_SACN, id |-> << 76, 83, 45, 66 >>, severity |-> STR_WARNING,
                   example |-> << 115, 111, 117, 114, 99, 101, 32, 98 >> ]
    /\ hist[2] = [ protocol |-> STR_SACN, id |-> << 76, 83, 45, 66 >>, severity |-> STR_WARNING,
                   example |-> << 115, 111, 117, 114, 99, 101, 32, 97 >> ]
    /\ hist[3] = [ protocol |-> STR_SACN, id |-> << 76, 83, 45, 68 >>, severity |-> STR_ERROR,
                   example |-> << 115, 111, 117, 114, 99, 101, 32, 98 >> ]
    /\ compliance[STR_SACN].violations[1].examples = << << 115, 111, 117, 114, 99, 101, 32, 98 >>, << 115, 111, 117, 114, 99, 101, 32, 97 >> >>
    /\ Len(Unwrap(report).compliance) = 1
    /\ Unwrap(report).compliance[1].violations[1].id = << 76, 83, 45, 68 >>
    /\ Unwrap(report).compliance[1].violations[2].examples = << << 115, 111, 117, 114, 99, 101, 32, 97 >>, << 115, 111, 117, 114, 99, 101, 32, 98 >> >>

----------------------------------------------------------------------------
(* SpecArtFields: Art-Net payloads by opcode, universe and declared length
   (protocols/artnet/parser.rs, lines 12-47; reader.rs, lines 52-69) *)

MaxFieldPackets == 2

\* ArtNetReader::read_dmx_length: the lengths it returns Ok for.
read_dmx_length_ok(len) == ~(~(len \in 2..DMX_MAX_SLOTS) \/ len % 2 /= 0)

\* ArtNetReader::read_universe_id: the values it returns Ok for.
read_universe_id_ok(value) == ~(value > 32767)

\* Declared lengths: none, odd, even, over the maximum.
ArtLengths == { 0, 1, 2, 3, DMX_MAX_SLOTS + 1 }

\* Universe fields: a canonical one and the first above 0x7FFF.
ArtUniverses == { 1, 32768 }

\* OpDmx and OpPoll.
ArtOpCodes == { ARTDMX_OPCODE, 8192 }

\* An Art-Net payload with the given fields and as many data bytes as it
\* declares (512 at most).
art_payload(opcode, universe, length) ==
    LET dmx == build_artnet_payload(1, SlotValues(Min(length, DMX_MAX_SLOTS)), universe)
        p1 == PutBytes(dmx, ARTNET_OP_CODE_OFFSET, U16LeBytes(opcode))
    IN  PutBytes(p1, ARTNET_LENGTH_OFFSET, U16BeBytes(length))

\* The source yields an Art-Net packet on the standard port.
ArtFieldPacket ==
    /\ packets_total < MaxFieldPackets
    /\ \E opcode \in ArtOpCodes, universe \in ArtUniverses, length \in ArtLengths :
          LET ts == IF hist = << >> THEN 0 ELSE clock + TICKS_PER_S
              data == build_ipv4_udp_packet(SrcIpA, SrcIpB, ARTNET_PORT, ARTNET_PORT,
                          art_payload(opcode, universe, length))
          IN  /\ AnalyzePacket(Some(ts), "ETHERNET", data)
              /\ clock' = ts
              /\ hist' = Append(hist, [ opcode |-> opcode, universe |-> universe,
                                        length |-> length, ts |-> ts ])

NextArtFields == ArtFieldPacket \/ Finalize

SpecArtFields == InitRun /\ [][NextArtFields]_vars

\* What the claim expects of the ArtDMX packet appended to hist, its
\* universe being canonical: a frame when the length is even and in
\* 2..512, else LS-ARTNET-LENGTH and no frame.
LengthAcceptedIffEven ==
    (/\ hist' /= hist
     /\ hist'[Len(hist')].opcode = ARTDMX_OPCODE
     /\ read_universe_id_ok(hist'[Len(hist')].universe)) =>
        IF read_dmx_length_ok(hist'[Len(hist')].length)
        THEN FrameTotal(artnet_stats') = FrameTotal(artnet_stats) + 1
        ELSE /\ ViolationCount(compliance', STR_ARTNET, << 76, 83, 45, 65, 82, 84, 78, 69, 84, 45, 76, 69, 78, 71, 84, 72 >>)
                   = ViolationCount(compliance, STR_ARTNET, << 76, 83, 45, 65, 82, 84, 78, 69, 84, 45, 76, 69, 78, 71, 84, 72 >>) + 1
             /\ artnet_stats' = artnet_stats
             /\ dmx_store' = dmx_store

\* C17: parse_artdmx accepts an ArtDMX packet only when its declared length
\* is even and within 2..512; any other length is rejected with the
\* invalid-length error, recorded as LS-ARTNET-LENGTH, and no frame is
\* counted.
C17_OnlyEvenLengthsAccepted == [][LengthAcceptedIffEven]_vars

\* What the claim expects of the ArtDMX packet appended to hist when its
\* universe field is above 0x7FFF.
HighUniverseRejected ==
    (/\ hist' /= hist
     /\ hist'[Len(hist')].opcode = ARTDMX_OPCODE
     /\ ~read_universe_id_ok(hist'[Len(hist')].universe)) =>
        /\ ViolationCount(compliance', STR_ARTNET, << 76, 83, 45, 65, 82, 84, 78, 69, 84, 45, 85, 78, 73, 86, 69, 82, 83, 69, 45, 73, 68 >>)
              = ViolationCount(compliance, STR_ARTNET, << 76, 83, 45, 65, 82, 84, 78, 69, 84, 45, 85, 78, 73, 86, 69, 82, 83, 69, 45, 73, 68 >>) + 1
        /\ artnet_stats' = artnet_stats

\* C18: an ArtDMX packet whose universe field is above 0x7FFF is rejected
\* and recorded as LS-ARTNET-UNIVERSE-ID, so that no report holds an
\* Art-Net universe summary above 0x7FFF.
C18_NoUniverseAbove7FFF ==
    /\ [][HighUniverseRejected]_vars
    /\ [](IsSome(report) =>
            \A i \in 1..Len(Unwrap(report).universes) :
                Unwrap(report).universes[i].proto = STR_ARTNET
                    => read_universe_id_ok(Unwrap(report).universes[i].universe))

\* What the claim expects of a packet with the Art-Net magic and another
\* opcode than OpDmx.
OtherOpCodeReported ==
    (/\ hist' /= hist
     /\ hist'[Len(hist')].opcode /= ARTDMX_OPCODE) =>
        ViolationCount(compliance', STR_ARTNET, << 76, 83, 45, 65, 82, 84, 78, 69, 84, 45, 79, 80, 67, 79, 68, 69 >>)
            = ViolationCount(compliance, STR_ARTNET, << 76, 83, 45, 65, 82, 84, 78, 69, 84, 45, 79, 80, 67, 79, 68, 69 >>) + 1

\* C19: a payload with the Art-Net magic and an opcode other than 0x5000
\* is reported as an LS-ARTNET-OPCODE violation.
C19_OtherOpCodeReported == [][OtherOpCodeReported]_vars
----------------------------------------------------------------------------
(* SpecSacnFields: parse_sacn_dmx on payloads of 118 bytes or more
   (protocols/sacn/parser.rs, lines 14-46 and the tests of lines 109-231) *)

\* The header fields a payload may carry a wrong value in.
SacnFields == { "preamble", "postamble", "acn_pid", "root_vector",
                "framing_vector", "dmp_vector" }

SacnSlotCounts == { 0, 2 }

\* The sACN data packet of n slots with a wrong value in the fields of bad.
sacn_field_payload(bad, n) ==
    LET p0 == build_sacn_payload(1, SlotValues(n), 1)
        p1 == IF "preamble" \in bad
              THEN PutBytes(p0, SACN_PREAMBLE_SIZE_OFFSET, U16BeBytes(PREAMBLE_SIZE + 1))
              ELSE p0
        p2 == IF "postamble" \in bad
              THEN PutBytes(p1, SACN_POSTAMBLE_SIZE_OFFSET, U16BeBytes(POSTAMBLE_SIZE + 1))
              ELSE p1
        p3 == IF "acn_pid" \in bad
              THEN PutBytes(p2, SACN_ACN_PID_OFFSET, << (ACN_PID[1] + 1) % 256 >>)
              ELSE p2
        p4 == IF "root_vector" \in bad
              THEN PutBytes(p3, SACN_ROOT_VECTOR_OFFSET, U32BeBytes(ROOT_VECTOR_DATA + 1))
              ELSE p3
        p5 == IF "framing_vector" \in bad
              THEN PutBytes(p4, SACN_FRAMING_VECTOR_OFFSET, U32BeBytes(FRAMING_VECTOR_DMX + 1))
              ELSE p4
    IN  IF "dmp_vector" \in bad
        THEN PutBytes(p5, SACN_DMP_VECTOR_OFFSET, << DMP_VECTOR_SET_PROPERTY + 1 >>)
        ELSE p5

\* The payload to decode is drawn; nothing is decoded yet.
InitSacnFields ==
    /\ NoFollow
    /\ InitLocals
    /\ dmx_ret = << >>
    /\ dmx_calls = << >>
    /\ parse_ret = None
    /\ clock = 0
    /\ \E bad \in SUBSET SacnFields, n \in SacnSlotCounts :
          hist = << [ bad |-> bad, slots |-> n ] >>

\* parse_sacn_dmx is called on the payload.
ParseSacn ==
    /\ IsNone(parse_ret)
    /\ parse_ret' = Some(parse_sacn_dmx(sacn_field_payload(hist[1].bad, hist[1].slots)))
    /\ UNCHANGED <<followVars, states, dmx_ret, dmx_calls, artnet_stats, loopVars, outVars,
                   clock, hist>>

NextSacnFields == ParseSacn

SpecSacnFields == InitSacnFields /\ [][NextSacnFields]_vars

HeaderErrorKinds == { "InvalidAcnPid", "InvalidRootVector", "InvalidFramingVector",
                      "InvalidDmpVector" }

\* The error kind the first wrong field of bad gives, in the order the
\* claim states; "none" when no validated field is wrong.
FirstFieldError(bad) ==
    IF "acn_pid" \in bad THEN "InvalidAcnPid"
    ELSE IF "root_vector" \in bad THEN "InvalidRootVector"
    ELSE IF "framing_vector" \in bad THEN "InvalidFramingVector"
    ELSE IF "dmp_vector" \in bad THEN "InvalidDmpVector"
    ELSE "none"

\* C20: for a payload of at least 118 bytes parse_sacn_dmx returns the
\* silent None exactly when the preamble size or the postamble size
\* mismatches; when both match it validates the ACN PID, the root vector,
\* the framing vector and the DMP vector in that order and fails with the
\* error of the first field that mismatches, and with none of these
\* errors when the four fields match.
C20_SilentNoneThenFieldOrder ==
    IsSome(parse_ret) =>
        LET bad == hist[1].bad
            result == Unwrap(parse_ret)
            silent == result.tag = "Ok" /\ IsNone(result.value)
        IN  /\ Len(sacn_field_payload(bad, hist[1].slots)) >= SACN_MIN_LEN
            /\ silent <=> ("preamble" \in bad \/ "postamble" \in bad)
            /\ ~silent =>
                  IF FirstFieldError(bad) = "none"
                  THEN result.tag = "Err" => result.err.kind \notin HeaderErrorKinds
                  ELSE result.tag = "Err" /\ result.err.kind = FirstFieldError(bad)

C20_Witness ==
    /\ hist[1].bad = { "root_vector", "dmp_vector" }
    /\ IsSome(parse_ret)
    /\ Unwrap(parse_ret).tag = "Err"
    /\ Unwrap(parse_ret).err.kind = "InvalidRootVector"
----------------------------------------------------------------------------
(* SpecStartCode: sACN packets by start code and property value count, on
   the standard port (scenario S5; protocols/sacn/parser.rs, lines 46-52) *)

MaxStartCodePackets == 2

\* Start codes: the DMX one, and two alternate ones.
StartCodes == { 0, 1, 221 }

\* Property value counts: that of two slots, none, over the maximum.
PropertyValueCounts == { 3, 0, DMX_MAX_SLOTS + 2 }

\* The sACN data packet of two slots with the given start code and count.
start_code_payload(start_code, count) ==
    PutBytes(PutBytes(ValidSacn, SACN_START_CODE_OFFSET, << start_code >>),
             SACN_PROPERTY_VALUE_COUNT_OFFSET, U16BeBytes(count))

StartCodePacket ==
    /\ packets_total < MaxStartCodePackets
    /\ \E start_code \in StartCodes, count \in PropertyValueCounts :
          LET ts == IF hist = << >> THEN 0 ELSE clock + TICKS_PER_S
              data == build_ipv4_udp_packet(SrcIpA, SrcIpB, SACN_PORT, SACN_PORT,
                          start_code_payload(start_code, count))
          IN  /\ AnalyzePacket(Some(ts), "ETHERNET", data)
              /\ clock' = ts
              /\ hist' = Append(hist, [ start_code |-> start_code, count |-> count,
                                        ts |-> ts ])

NextStartCode == StartCodePacket \/ Finalize

SpecStartCode == InitRun /\ [][NextStartCode]_vars

\* The packets consumed so far whose start code is not zero.
AlternateStartCodes == { j \in 1..Len(hist) : hist[j].start_code /= 0 }

\* C21: an sACN packet on the standard port that is valid except for a
\* non-zero start code adds no frame to any universe and is counted under
\* LS-SACN-START-CODE, whatever its property value count (the start code is
\* checked first); a capture of one such packet gives exactly one
\* compliance entry: protocol sacn, id LS-SACN-START-CODE, severity error,
\* count 1, one example.
C21_StartCodeViolationOnly ==
    /\ ViolationCount(compliance, STR_SACN, << 76, 83, 45, 83, 65, 67, 78, 45, 83, 84, 65, 82, 84, 45, 67, 79, 68, 69 >>)
           = Cardinality(AlternateStartCodes)
    /\ FrameTotal(sacn_stats) + FrameTotal(artnet_stats)
           <= Len(hist) - Cardinality(AlternateStartCodes)
    /\ (IsSome(report) /\ Len(hist) = 1 /\ AlternateStartCodes = {1}) =>
          LET out == Unwrap(report)
          IN  /\ out.universes = << >>
              /\ Len(out.compliance) = 1
              /\ out.compliance[1].protocol = STR_SACN
              /\ Len(out.compliance[1].violations) = 1
              /\ out.compliance[1].violations[1].id = << 76, 83, 45, 83, 65, 67, 78, 45, 83, 84, 65, 82, 84, 45, 67, 79, 68, 69 >>
              /\ out.compliance[1].violations[1].severity = STR_ERROR
              /\ out.compliance[1].violations[1].count = 1
              /\ Len(out.compliance[1].violations[1].examples) = 1

C21_Witness ==
    /\ IsSome(report)
    /\ Len(hist) = 1
    /\ hist[1].start_code = 1
    /\ hist[1].count = 0
    /\ Len(Unwrap(report).compliance) = 1
    /\ Unwrap(report).compliance[1].violations[1].count = 1
----------------------------------------------------------------------------
(* SpecOrder: captures of several universes, protocols and flows
   (analysis/mod.rs, lines 397-407; analysis/flows.rs, lines 58-97) *)

MaxOrderPackets == 3

\* A host whose address sorts before SrcIpB as a string and after it as a
\* number.
SrcIpC == << 10, 0, 0, 10 >>

\* Universe 1 is sent under both protocols, universe 2 likewise; the hosts
\* SrcIpA and SrcIpC each send to two destinations.
OrderSources ==
    { [ proto |-> "artnet", src |-> SrcIpB, dst |-> SrcIpA, universe |-> 2 ],
      [ proto |-> "artnet", src |-> SrcIpA, dst |-> SrcIpB, universe |-> 1 ],
      [ proto |-> "sacn", src |-> SrcIpA, dst |-> SrcIpC, universe |-> 1 ],
      [ proto |-> "sacn", src |-> SrcIpC, dst |-> SrcIpB, universe |-> 2 ],
      [ proto |-> "sacn", src |-> SrcIpC, dst |-> SrcIpA, universe |-> 1 ] }

OrderPacket ==
    /\ packets_total < MaxOrderPackets
    /\ \E s \in OrderSources :
          LET port == IF s.proto = "artnet" THEN ARTNET_PORT ELSE SACN_PORT
              sequence == packets_total + 1
              ts == IF hist = << >> THEN 0 ELSE clock + 1
              payload == IF s.proto = "artnet"
                         THEN build_artnet_payload(sequence, SlotValues(120), s.universe)
                         ELSE build_sacn_payload(sequence, SlotValues(4), s.universe)
              data == build_ipv4_udp_packet(s.src, s.dst, port, port, payload)
          IN  /\ AnalyzePacket(Some(ts), "ETHERNET", data)
              /\ clock' = ts
              /\ hist' = Append(hist, s)

NextOrder == OrderPacket \/ Finalize

SpecOrder == InitRun /\ [][NextOrder]_vars

\* The (universe, protocol) pairs and the UDP 4-tuples of the capture.
OrderUniverses ==
    { << hist[j].universe, hist[j].proto >> : j \in 1..Len(hist) }
OrderFlows ==
    { << hist[j].src, hist[j].dst, hist[j].proto >> : j \in 1..Len(hist) }

\* C24: the universes list of the report is in increasing order of
\* (universe, proto) and holds one summary per pair seen; the flows list is
\* in increasing order of src, then dst (as strings) and holds one summary
\* per UDP 4-tuple seen.
C24_UniversesAndFlowsSortedAndUnique ==
    IsSome(report) =>
        LET u == Unwrap(report).universes
            f == Unwrap(report).flows
        IN  /\ Len(u) = Cardinality(OrderUniverses)
            /\ \A i \in 1..(Len(u) - 1) :
                  \/ u[i].universe < u[i + 1].universe
                  \/ u[i].universe = u[i + 1].universe
                       /\ StrLess(u[i].proto, u[i + 1].proto)
            /\ Len(f) = Cardinality(OrderFlows)
            /\ \A i \in 1..(Len(f) - 1) :
                  \/ StrLess(f[i].src, f[i + 1].src)
                  \/ f[i].src = f[i + 1].src /\ StrLess(f[i].dst, f[i + 1].dst)

\* Universe 2 of Art-Net arrives first, then universe 1 under sACN and
\* under Art-Net: three summaries, three flows, the flow of 10.0.0.10
\* before those of 10.0.0.1 and 10.0.0.2.
C24_Witness ==
    /\ IsSome(report)
    /\ Len(hist) = 3
    /\ hist[1].universe = 2 /\ hist[1].proto = "artnet"
    /\ hist[2].universe = 1 /\ hist[2].proto = "sacn" /\ hist[2].src = SrcIpC
    /\ hist[3].universe = 1 /\ hist[3].proto = "artnet"
    /\ Len(Unwrap(report).universes) = 3
    /\ Unwrap(report).universes[1].proto = STR_ARTNET
    /\ Unwrap(report).universes[2].proto = STR_SACN
    /\ Unwrap(report).universes[3].universe = 2
    /\ Len(Unwrap(report).flows) = 3
    /\ Unwrap(report).flows[1].src = format_endpoint(SrcIpC, SACN_PORT)
    /\ Unwrap(report).flows[2].src = format_endpoint(SrcIpA, ARTNET_PORT)
    /\ Unwrap(report).flows[3].src = format_endpoint(SrcIpB, ARTNET_PORT)
----------------------------------------------------------------------------
(* SpecTiming: one source whose frames may lack a timestamp and whose
   sequence numbers wrap (analysis/universes.rs, lines 206-271) *)

MaxTimingFrames == 4

\* Steps of the sequence number giving the gaps 255, 0, 1, 127 and 128.
TimingSteps == { 0, 1, 2, 128, 129 }

\* The frame has no timestamp, or arrives this much after the last
\* timestamped one.
TimingDeltas == { 1 * TICKS_PER_S, 3 * TICKS_PER_S }

TimingSourceId == artnet_source_id(SrcIpA, ARTNET_PORT)

\* The statistics of the source in a map of universes.
TimingStats(stats) ==
    IF 1 \in DOMAIN stats
    THEN MapGetOr(stats[1].per_source, TimingSourceId, DefaultSourceStats)
    ELSE DefaultSourceStats

\* One add_artnet_frame call for the next frame of the source.
AddTimedFrame ==
    /\ Len(hist) < MaxTimingFrames
    /\ \E step \in TimingSteps, stamp \in {None} \cup { Some(d) : d \in TimingDeltas } :
          LET seq == IF hist = << >> THEN 1
                     ELSE (hist[Len(hist)].sequence + step) % 256
              ts == IF IsNone(stamp) THEN None
                    ELSE IF \A j \in 1..Len(hist) : IsNone(hist[j].ts) THEN Some(0)
                    ELSE Some(clock + Unwrap(stamp))
          IN  /\ artnet_stats' = add_artnet_frame(artnet_stats, 1, SrcIpA,
                                     ARTNET_PORT, Some(seq), ts)
              /\ clock' = IF IsSome(ts) THEN Unwrap(ts) ELSE clock
              /\ hist' = Append(hist, [sequence |-> seq, ts |-> ts])
    /\ UNCHANGED <<followVars, states, callVars, loopVars, outVars>>

NextTiming == AddTimedFrame

SpecTiming == InitSeq /\ [][NextTiming]_vars

\* The frame a step adds, and the gap in front of it.
FrameAdded == hist'[Len(hist')]
GapBefore == (FrameAdded.sequence + 256 - (Unwrap(TimingStats(artnet_stats).last_seq) + 1)) % 256

\* C25: for a sequenced frame that follows a known last_seq, with gap =
\* (seq - (last_seq + 1)) mod 256: if 0 < gap < 128 the gap is added to
\* loss and to the current burst, and burst_count grows by one exactly when
\* no burst was open; otherwise loss is unchanged and the current burst is
\* closed; in both cases last_seq becomes seq.
C25_GapUpdatesLossAndBurst ==
    [][ hist /= << >> =>
          LET old == TimingStats(artnet_stats)
              new == TimingStats(artnet_stats')
          IN  /\ IsSome(old.last_seq)
              /\ new.last_seq = Some(FrameAdded.sequence)
              /\ IF GapBefore > 0 /\ GapBefore < 128
                 THEN /\ new.loss = old.loss + GapBefore
                      /\ new.current_burst = old.current_burst + GapBefore
                      /\ new.burst_count = old.burst_count
                            + (IF old.current_burst = 0 THEN 1 ELSE 0)
                 ELSE /\ new.loss = old.loss
                      /\ new.current_burst = 0
                      /\ new.burst_count = old.burst_count ]_vars

\* Sequences 1, 3, 131, 4: gaps 1, 127 and 128; one burst of 128 lost
\* frames, opened by the first gap, extended by the second and closed by
\* the third.
C25_Witness ==
    /\ Len(hist) = 4
    /\ [i \in 1..4 |-> hist[i].sequence] = << 1, 3, 131, 4 >>
    /\ TimingStats(artnet_stats).loss = 128
    /\ TimingStats(artnet_stats).burst_count = 1
    /\ TimingStats(artnet_stats).max_burst_len = 128
    /\ TimingStats(artnet_stats).current_burst = 0
    /\ TimingStats(artnet_stats).last_seq = Some(4)

\* C26: a frame without a timestamp is counted and moves the sequence
\* state, and leaves first_ts, last_ts, prev_iat and the time-window rings
\* of its source as they were.
C26_UntimedFrameKeepsTimingState ==
    [][ IsNone(FrameAdded.ts) =>
          LET old == TimingStats(artnet_stats)
              new == TimingStats(artnet_stats')
          IN  /\ new.frames = old.frames + 1
              /\ artnet_stats'[1].frames = Len(hist) + 1
              /\ new.last_seq = Some(FrameAdded.sequence)
              /\ new.first_ts = old.first_ts
              /\ new.last_ts = old.last_ts
              /\ new.prev_iat = old.prev_iat
              /\ new.frame_samples = old.frame_samples
              /\ new.jitter_samples = old.jitter_samples
              /\ new.loss_samples = old.loss_samples
              /\ new.burst_start_samples = old.burst_start_samples
              /\ new.burst_length_samples = old.burst_length_samples ]_vars
----------------------------------------------------------------------------
(* SpecLoss: two sources of one universe, with and without sequence
   numbers (analysis/universes.rs, lines 273-337) *)

MaxLossFrames == 4

\* The frame carries no sequence number, or one this far from the last
\* sequence number of its source.
LossSteps == { 1, 2 }
LossSources == { SrcIpA, SrcIpB }

\* The last sequence number a source has sent, if any.
RECURSIVE LastSequenceOf(_, _)
LastSequenceOf(src, n) ==
    IF n = 0 THEN None
    ELSE IF hist[n].src = src /\ IsSome(hist[n].sequence) THEN hist[n].sequence
    ELSE LastSequenceOf(src, n - 1)

\* One add_artnet_frame call; the frames are one second apart.
AddLossFrame ==
    /\ Len(hist) < MaxLossFrames
    /\ \E src \in LossSources, step \in {None} \cup { Some(k) : k \in LossSteps } :
          LET last == LastSequenceOf(src, Len(hist))
              sequence == IF IsNone(step) THEN None
                          ELSE IF IsNone(last) THEN Some(1)
                          ELSE Some((Unwrap(last) + Unwrap(step)) % 256)
              ts == IF hist = << >> THEN 0 ELSE clock + TICKS_PER_S
          IN  /\ artnet_stats' = add_artnet_frame(artnet_stats, 1, src,
                                     ARTNET_PORT, sequence, Some(ts))
              /\ clock' = ts
              /\ hist' = Append(hist, [src |-> src, sequence |-> sequence, ts |-> ts])
    /\ UNCHANGED <<followVars, states, callVars, loopVars, outVars>>

NextLoss == AddLossFrame

SpecLoss == InitSeq /\ [][NextLoss]_vars

\* The sources that have sent a sequence number, their frames, and the
\* frames lost in front of each sequenced frame.
TrackedSources == { src \in LossSources : IsSome(LastSequenceOf(src, Len(hist))) }
TrackedFrames == Cardinality({ j \in 1..Len(hist) : hist[j].src \in TrackedSources })
LostBefore(j) ==
    LET last == LastSequenceOf(hist[j].src, j - 1)
    IN  IF IsNone(hist[j].sequence) \/ IsNone(last) THEN 0
        ELSE LET gap == (Unwrap(hist[j].sequence) + 256 - (Unwrap(last) + 1)) % 256
             IN  IF gap > 0 /\ gap < 128 THEN gap ELSE 0
TrackedLoss == SumSeq([j \in 1..Len(hist) |-> LostBefore(j)])

LossMetrics == compute_metrics(artnet_stats[1].per_source)

\* C27: with all frames inside one window, the loss metrics of a universe
\* are reported exactly when some source has a last_seq and the
\* sequence-tracked sources have more than one frame between them; then
\* loss_packets is their loss and loss_rate = loss / (frames + loss) over
\* the frames of the sequence-tracked sources only.
C27_LossOverTrackedSources ==
    hist /= << >> =>
        IF TrackedSources /= {} /\ TrackedFrames > 1
        THEN /\ LossMetrics.loss_packets = Some(TrackedLoss)
             /\ LossMetrics.loss_rate = Some(Rat(TrackedLoss, TrackedFrames + TrackedLoss))
             /\ IsSome(LossMetrics.burst_count)
             /\ IsSome(LossMetrics.max_burst_len)
        ELSE /\ IsNone(LossMetrics.loss_packets)
             /\ IsNone(LossMetrics.loss_rate)
             /\ IsNone(LossMetrics.burst_count)
             /\ IsNone(LossMetrics.max_burst_len)

\* SrcIpA sends sequences 1 and 3, SrcIpB two frames without a sequence
\* number: one frame lost out of three, not out of five.
C27_Witness ==
    /\ Len(hist) = 4
    /\ TrackedSources = { SrcIpA }
    /\ TrackedFrames = 2
    /\ TrackedLoss = 1
    /\ LossMetrics.loss_packets = Some(1)
    /\ LossMetrics.loss_rate = Some(<< 1, 3 >>)
----------------------------------------------------------------------------
(* SpecFps: the frame rate of a universe from the DMX frame log, as in the
   unit test fps_uses_last_five_seconds (analysis/universes.rs, 149-196) *)

MaxFpsFrames == 4

\* Two Art-Net sources and one sACN source of universe 1.
FpsSources ==
    { [ protocol |-> "ArtNet", source_id |-> artnet_source_id(SrcIpA, ARTNET_PORT) ],
      [ protocol |-> "ArtNet", source_id |-> artnet_source_id(SrcIpB, ARTNET_PORT) ],
      [ protocol |-> "Sacn", source_id |-> sacn_source_id(<< >>, SrcIpA, SACN_PORT) ] }

\* The frame has no timestamp, or arrives this much after the last
\* timestamped one.
FpsDeltas == { 0, 1 * TICKS_PER_S, 5 * TICKS_PER_S }

\* One DmxStore::push of a frame of universe 1.
PushFrame ==
    /\ Len(hist) < MaxFpsFrames
    /\ \E src \in FpsSources, stamp \in {None} \cup { Some(d) : d \in FpsDeltas } :
          LET ts == IF IsNone(stamp) THEN None
                    ELSE IF \A j \in 1..Len(hist) : IsNone(hist[j].ts) THEN Some(0)
                    ELSE Some(clock + Unwrap(stamp))
          IN  /\ dmx_store' = dmx_store_push(dmx_store,
                     [ universe |-> 1, timestamp |-> ts, source_id |-> src.source_id,
                       protocol |-> src.protocol, slots |-> ZeroImage ])
              /\ clock' = IF IsSome(ts) THEN Unwrap(ts) ELSE clock
              /\ hist' = Append(hist, [ protocol |-> src.protocol, ts |-> ts ])
    /\ UNCHANGED <<followVars, states, callVars, artnet_stats, sacn_stats, flow_stats, compliance,
                   packets_total, first_ts, last_ts, last_calls, outVars>>

NextFps == PushFrame

SpecFps == InitSeq /\ [][NextFps]_vars

\* The timestamps of the Art-Net frames pushed so far.
FpsTimed == { j \in 1..Len(hist) : hist[j].protocol = "ArtNet" /\ IsSome(hist[j].ts) }
FpsStamps == { Unwrap(hist[j].ts) : j \in FpsTimed }
FpsLatest == SetMax(FpsStamps)
FpsEarliest == SetMin(FpsStamps)

\* C28: the fps of a universe and protocol is the number of its
\* timestamped frames with ts >= last_ts - 5 s, over all its sources,
\* divided by min(last_ts - earliest_ts, 5 s); it is absent when no frame
\* has a timestamp or when last_ts <= earliest_ts.
C28_FpsIsWindowCountOverSpan ==
    \A seed \in 0..MaxHashSeed :
        fps_from_dmx(dmx_store, 1, "ArtNet", Len(hist), seed) =
            IF FpsStamps = {} THEN None
            ELSE IF FpsLatest <= FpsEarliest THEN None
            ELSE Some(Rat(Cardinality({ j \in FpsTimed :
                              Unwrap(hist[j].ts) >= FpsLatest - 5 * TICKS_PER_S }) * TICKS_PER_S,
                          Min(FpsLatest - FpsEarliest, 5 * TICKS_PER_S)))

\* Frames of one source at 0, 1, 2 and 7 s: two frames in the last 5 s,
\* fps = 2 / 5.
C28_Witness ==
    /\ Len(hist) = 4
    /\ \A j \in 1..4 : hist[j].protocol = "ArtNet"
    /\ [j \in 1..4 |-> hist[j].ts] = << Some(0), Some(1 * TICKS_PER_S),
                                       Some(2 * TICKS_PER_S), Some(7 * TICKS_PER_S) >>
    /\ DOMAIN dmx_store[1] = { artnet_source_id(SrcIpA, ARTNET_PORT) }
    /\ fps_from_dmx(dmx_store, 1, "ArtNet", 4, 0) = Some(<< 2, 5 >>)
----------------------------------------------------------------------------
(* SpecFlow: add_flow_stats on the packets of two flows, as in the unit
   tests of analysis/flows.rs (lines 148-170 and 58-97) *)

MaxFlowPackets == 4

\* The two directions of one conversation.
FlowEnds == { << SrcIpA, SrcIpB >>, << SrcIpB, SrcIpA >> }

\* The packet has no timestamp, or arrives this many ticks after the last
\* timestamped one.
FlowDeltas == { 0, 1, 2, 3 }

\* One add_flow_stats call; packet k of the capture has a payload of
\* 10 + k bytes.
AddFlowPacket ==
    /\ Len(hist) < MaxFlowPackets
    /\ \E ends \in FlowEnds, stamp \in {None} \cup { Some(d) : d \in FlowDeltas } :
          LET ts == IF IsNone(stamp) THEN None
                    ELSE IF \A j \in 1..Len(hist) : IsNone(hist[j].ts) THEN Some(0)
                    ELSE Some(clock + Unwrap(stamp))
              packet == [ src_ip |-> ends[1], src_port |-> ARTNET_PORT,
                          dst_ip |-> ends[2], dst_port |-> ARTNET_PORT,
                          payload |-> Zeros(10 + Len(hist) + 1) ]
          IN  /\ flow_stats' = add_flow_stats(flow_stats, packet, ts)
              /\ clock' = IF IsSome(ts) THEN Unwrap(ts) ELSE clock
              /\ hist' = Append(hist, [ key |-> FlowKey(packet), ts |-> ts,
                                        bytes |-> Len(packet.payload) ])
    /\ UNCHANGED <<followVars, states, callVars, artnet_stats, sacn_stats, dmx_store, compliance,
                   packets_total, first_ts, last_ts, last_calls, outVars>>

NextFlow == AddFlowPacket

SpecFlow == InitSeq /\ [][NextFlow]_vars

\* The timestamped packets of a flow, in arrival order, and those of the
\* first k of them that lie within 1 s of the k-th.
FlowTimed(key) == SelectSeq(hist, LAMBDA h : h.key = key /\ IsSome(h.ts))
FlowWindowAt(key, k) ==
    LET timed == FlowTimed(key)
        T == Unwrap(timed[k].ts)
        within == SelectSeq(SubSeq(timed, 1, k),
                            LAMBDA h : T - Unwrap(h.ts) <= 1 * TICKS_PER_S)
    IN  [i \in 1..Len(within) |-> << Unwrap(within[i].ts), within[i].bytes >>]
WindowBytes(w) == SumSeq([i \in 1..Len(w) |-> w[i][2]])

\* The summary build_flow_summaries gives for a flow.
FlowSummaryOf(key, seed) ==
    LET f == build_flow_summaries(flow_stats, seed)
        i == CHOOSE i \in 1..Len(f) :
                 /\ f[i].src = format_endpoint(key.src_ip, key.src_port)
                 /\ f[i].dst = format_endpoint(key.dst_ip, key.dst_port)
    IN  f[i]

\* C29: with non-decreasing timestamps, after a flow's timestamped
\* packet at T its window_samples are its packets with T - ts <= 1 s,
\* window_packets and window_bytes their number and byte sum, and
\* peak_window_packets and peak_window_bytes the largest values these have
\* had; pps_peak_1s and bps_peak_1s are reported, with those peaks, only
\* when last_ts - first_ts >= 1 s.
C29_RateWindowAndPeaks ==
    \A key \in DOMAIN flow_stats :
        LET st == flow_stats[key]
            n == Len(FlowTimed(key))
            span == Unwrap(FlowTimed(key)[n].ts) - Unwrap(FlowTimed(key)[1].ts)
        IN  IF n = 0
            THEN /\ st.window_samples = << >>
                 /\ \A seed \in 0..MaxHashSeed :
                       IsNone(FlowSummaryOf(key, seed).pps_peak_1s)
            ELSE /\ st.window_samples = FlowWindowAt(key, n)
                 /\ st.window_packets = Len(FlowWindowAt(key, n))
                 /\ st.window_bytes = WindowBytes(FlowWindowAt(key, n))
                 /\ st.peak_window_packets
                       = SetMax({ Len(FlowWindowAt(key, k)) : k \in 1..n })
                 /\ st.peak_window_bytes
                       = SetMax({ WindowBytes(FlowWindowAt(key, k)) : k \in 1..n })
                 /\ \A seed \in 0..MaxHashSeed :
                       LET f == FlowSummaryOf(key, seed)
                       IN  IF span >= 1 * TICKS_PER_S
                           THEN /\ f.pps_peak_1s = Some(st.peak_window_packets)
                                /\ f.bps_peak_1s = Some(st.peak_window_bytes)
                           ELSE IsNone(f.pps_peak_1s) /\ IsNone(f.bps_peak_1s)

\* Packets of one flow at 0, 0.5, 1 and 2.5 s: the window held three
\* packets at 1 s and holds one at 2.5 s.
C29_Witness ==
    /\ Len(hist) = 4
    /\ \A j \in 1..4 : hist[j].key = hist[1].key
    /\ [j \in 1..4 |-> hist[j].ts] = << Some(0), Some(1), Some(2), Some(5) >>
    /\ flow_stats[hist[1].key].window_packets = 1
    /\ flow_stats[hist[1].key].window_bytes = 14
    /\ flow_stats[hist[1].key].peak_window_packets = 3
    /\ flow_stats[hist[1].key].peak_window_bytes = 36
    /\ FlowSummaryOf(hist[1].key, 0).pps_peak_1s = Some(3)
----------------------------------------------------------------------------
(* SpecShort: datagrams cut short of the minimum lengths of the decoders
   (protocols/artnet/parser.rs, 12-14; protocols/sacn/parser.rs, 14-16) *)

MaxShortPackets == 2

\* What the datagram starts as: an ArtDMX packet of 100 slots (118 bytes),
\* an sACN data packet of 4 slots (130 bytes), or 118 zero bytes; it is
\* sent on the port of its protocol.
ShortKinds == { "artnet", "sacn", "zeros" }
short_payload_of(kind) ==
    IF kind = "artnet" THEN build_artnet_payload(1, SlotValues(100), 1)
    ELSE IF kind = "sacn" THEN build_sacn_payload(1, SlotValues(4), 1)
    ELSE Zeros(SACN_MIN_LEN)

\* The number of bytes of it the datagram keeps; 200 keeps all of it.
ShortCuts == { 0, 8, 17, 18, 117, 200 }

ShortPacket ==
    /\ packets_total < MaxShortPackets
    /\ \E kind \in ShortKinds, cut \in ShortCuts :
          LET whole == short_payload_of(kind)
              payload == SubSeq(whole, 1, Min(cut, Len(whole)))
              ts == IF hist = << >> THEN 0 ELSE clock + TICKS_PER_S
              port == IF kind = "artnet" THEN ARTNET_PORT
                      ELSE IF kind = "sacn" THEN SACN_PORT ELSE OtherSrcPort
              data == build_ipv4_udp_packet(SrcIpA, SrcIpB, port, port, payload)
          IN  /\ AnalyzePacket(Some(ts), "ETHERNET", data)
              /\ clock' = ts
              /\ hist' = Append(hist, [ kind |-> kind, payload |-> payload, ts |-> ts ])

NextShort == ShortPacket \/ Finalize

SpecShort == InitRun /\ [][NextShort]_vars

\* The datagrams parse_artdmx and parse_sacn_dmx find too short: for
\* Art-Net also the ArtDMX packets cut within their 100 slots.
ShortForArtnet ==
    { j \in 1..Len(hist) :
         \/ Len(hist[j].payload) < 18
         \/ hist[j].kind = "artnet" /\ Len(hist[j].payload) < 118 }
ShortForSacnMin == { j \in 1..Len(hist) : Len(hist[j].payload) < 118 }

\* C30: both decoders test the minimum length before any signature:
\* parse_artdmx returns TooShort for every payload of fewer than 18 bytes
\* and parse_sacn_dmx for every payload of fewer than 118 bytes, whatever
\* the bytes are, and analyze_source counts each under
\* LS-ARTNET-TOO-SHORT and LS-SACN-TOO-SHORT.
C30_MinimumLengthBeforeSignature ==
    /\ \A j \in 1..Len(hist) :
          LET payload == hist[j].payload
          IN  /\ Len(payload) < 18 =>
                    parse_artdmx(payload) = Err([kind |-> "TooShort", needed |-> 18,
                                                 actual |-> Len(payload)])
              /\ Len(payload) < 118 =>
                    parse_sacn_dmx(payload) = Err([kind |-> "TooShort", needed |-> 118,
                                                   actual |-> Len(payload)])
    /\ ViolationCount(compliance, STR_ARTNET, << 76, 83, 45, 65, 82, 84, 78, 69, 84, 45, 84, 79, 79, 45, 83, 72, 79, 82, 84 >>)
          = Cardinality(ShortForArtnet)
    /\ ViolationCount(compliance, STR_SACN, << 76, 83, 45, 83, 65, 67, 78, 45, 84, 79, 79, 45, 83, 72, 79, 82, 84 >>)
          = Cardinality(ShortForSacnMin)
    /\ ViolationTotal(compliance, STR_ARTNET) = Cardinality(ShortForArtnet)
    /\ ViolationTotal(compliance, STR_SACN) = Cardinality(ShortForSacnMin)

\* The first 8 bytes of an ArtDMX packet (the whole signature), then the
\* first 117 bytes of an sACN packet: both are too short for sACN, the
\* first one for Art-Net as well.
C30_Witness ==
    /\ IsSome(report)
    /\ Len(hist) = 2
    /\ hist[1].kind = "artnet" /\ Len(hist[1].payload) = 8
    /\ hist[2].kind = "sacn" /\ Len(hist[2].payload) = 117
    /\ ViolationCount(compliance, STR_ARTNET, << 76, 83, 45, 65, 82, 84, 78, 69, 84, 45, 84, 79, 79, 45, 83, 72, 79, 82, 84 >>) = 1
    /\ ViolationCount(compliance, STR_SACN, << 76, 83, 45, 83, 65, 67, 78, 45, 84, 79, 79, 45, 83, 72, 79, 82, 84 >>) = 2
----------------------------------------------------------------------------
(* SpecIsolation: apply_partial on keys that differ in universe, source or
   protocol, as in the unit test state_isolated_by_universe_and_protocol
   (analysis/dmx.rs, lines 77-95 and 172-187) *)

MaxIsolationCalls == 3

IsolationKeys ==
    { DmxStateKey(1, "source:example", "ArtNet"),
      DmxStateKey(1, "source:example", "Sacn"),
      DmxStateKey(2, "source:example", "ArtNet"),
      DmxStateKey(1, "source:other", "ArtNet") }

\* The partials of the calls: empty, two bytes, five other bytes.
IsolationShapes == { << 0, 10 >>, << 2, 10 >>, << 5, 200 >> }

ApplyPartialTo ==
    /\ Len(dmx_calls) < MaxIsolationCalls
    /\ \E key \in IsolationKeys, shape \in IsolationShapes :
          /\ states' = apply_partial(states, key, Fill(shape[1], shape[2]))
          /\ dmx_ret' = states'[key]
          /\ dmx_calls' = Append(dmx_calls,
                [key |-> key, len |-> shape[1], seed |-> shape[2]])
    /\ UNCHANGED <<followVars, parse_ret, artnet_stats, loopVars, outVars, clock, hist>>

NextIsolation == ApplyPartialTo

SpecIsolation == InitDmx /\ [][NextIsolation]_vars

\* C31: an apply_partial call on one key leaves the image of every other
\* key as it was, whether the keys differ in universe, in source or in
\* protocol, and removes no key; a call with an empty partial returns the
\* retained image of its key (all zero for a new key) unmodified.
C31_OtherKeysUntouched ==
    [][ LET call == dmx_calls'[Len(dmx_calls')]
        IN  /\ DOMAIN states' = DOMAIN states \cup { call.key }
            /\ \A k \in DOMAIN states : k /= call.key => states'[k] = states[k]
            /\ call.len = 0 =>
                  /\ dmx_ret' = StateEntry(states, call.key)
                  /\ states'[call.key] = StateEntry(states, call.key) ]_vars

\* The calls of the unit test: [11, 12] on (1, ArtNet), five bytes on
\* (1, Sacn), then an empty partial on (1, ArtNet), which returns
\* [11, 12, 0, ...].
C31_Witness ==
    /\ Len(dmx_calls) = 3
    /\ dmx_calls[1].key = DmxStateKey(1, "source:example", "ArtNet")
    /\ dmx_calls[1].len = 2
    /\ dmx_calls[2].key = DmxStateKey(1, "source:example", "Sacn")
    /\ dmx_calls[2].len = 5
    /\ dmx_calls[3].key = dmx_calls[1].key
    /\ dmx_calls[3].len = 0
    /\ dmx_ret[1] = 11 /\ dmx_ret[2] = 12 /\ dmx_ret[3] = 0
    /\ states[dmx_calls[2].key][1] = 201
----------------------------------------------------------------------------
(* SpecStream: analyze_source over a finite source that never fails
   (analysis/mod.rs, lines 45-62 and 377-387) *)

MaxStreamEvents == 2

\* The events a source may hold: a well-formed ArtDMX datagram, a UDP
\* datagram no decoder accepts, a TCP segment; without a timestamp or with
\* one, in any order.
StreamKinds == { "artnet_valid", "short", "tcp" }
StreamStamps == { None, Some(0), Some(1 * TICKS_PER_S), Some(3 * TICKS_PER_S) }
StreamEvents == [ kind : StreamKinds, ts : StreamStamps ]
StreamSources == UNION { [ 1..n -> StreamEvents ] : n \in 0..MaxStreamEvents }

\* hist is the sequence of events the source holds and clock the number of
\* them next_packet has yielded.
InitStream ==
    /\ NoFollow
    /\ InitLocals
    /\ dmx_ret = << >>
    /\ dmx_calls = << >>
    /\ parse_ret = None
    /\ clock = 0
    /\ hist \in StreamSources

\* next_packet returns Ok(Some(event)): the loop body runs on the event.
StreamPacket ==
    /\ clock < Len(hist)
    /\ LET event == hist[clock + 1]
           data == IF event.kind = "tcp"
                   THEN tcp_packet(SrcIpA, SrcIpB, ARTNET_PORT, ARTNET_PORT)
                   ELSE build_ipv4_udp_packet(SrcIpA, SrcIpB, ARTNET_PORT, ARTNET_PORT,
                                              ErrPayloads[event.kind])
       IN  AnalyzePacket(event.ts, "ETHERNET", data)
    /\ clock' = clock + 1
    /\ hist' = hist

\* next_packet returns Ok(None): the loop ends and the report is built.
EndOfStream ==
    /\ clock = Len(hist)
    /\ Finalize

NextStream == StreamPacket \/ EndOfStream

\* The loop body runs to its end on every event (no branch of it returns
\* or blocks), so an event the source still holds is eventually yielded.
StreamAdvance ==
    /\ clock < Len(hist)
    /\ IsNone(report)
    /\ IsNone(analysis_error)
    /\ clock' = clock + 1

\* The code after the loop can run: the source is exhausted and
\* analyze_source has not returned. EndOfStream is enabled exactly then.
StreamCanReturn ==
    /\ clock = Len(hist)
    /\ IsNone(report)
    /\ IsNone(analysis_error)

\* Weak fairness of EndOfStream, its enabling condition written out.
StreamReturns == []<>(~StreamCanReturn) \/ []<><<EndOfStream>>_vars

\* analyze_source is one sequential function: the loop takes its next step
\* while events remain, and the code after the loop runs once it breaks.
SpecStream ==
    InitStream /\ [][NextStream]_vars /\ WF_clock(StreamAdvance) /\ StreamReturns

\* The timestamps of the first k events of the source.
StreamStampsUpTo(k) ==
    { Unwrap(hist[j].ts) : j \in { i \in 1..k : IsSome(hist[i].ts) } }
StreamBound(k, Pick(_)) ==
    IF StreamStampsUpTo(k) = {} THEN None ELSE Some(Pick(StreamStampsUpTo(k)))

\* C32: over a finite source that never fails, every event is processed
\* once, in the order yielded (after k events the loop has counted k
\* packets, the UDP datagrams among them are in the flow table and the
\* bounds are those of their timestamps); the run ends with a report, built
\* once the source is exhausted, whose packets_total is the number of
\* events and whose time_start and time_end are the smallest and the
\* largest event timestamp.
C32_EveryEventOnceThenReport ==
    /\ [](/\ clock <= Len(hist)
          /\ packets_total = clock
          /\ FlowPacketTotal
                = Cardinality({ j \in 1..clock : hist[j].kind /= "tcp" })
          /\ first_ts = StreamBound(clock, SetMin)
          /\ last_ts = StreamBound(clock, SetMax)
          /\ IsSome(report) =>
                LET summary == Unwrap(Unwrap(report).capture_summary)
                IN  /\ clock = Len(hist)
                    /\ summary.packets_total = Len(hist)
                    /\ summary.time_start = ts_to_rfc3339(StreamBound(Len(hist), SetMin))
                    /\ summary.time_end = ts_to_rfc3339(StreamBound(Len(hist), SetMax)))
    /\ <>IsSome(report)

\* A datagram at 3 s, then a TCP segment at 0 s: two packets counted, the
\* capture runs from 00:00:00 to 00:00:03.
C32_Witness ==
    /\ IsSome(report)
    /\ Len(hist) = 2
    /\ hist[1] = [ kind |-> "short", ts |-> Some(3 * TICKS_PER_S) ]
    /\ hist[2] = [ kind |-> "tcp", ts |-> Some(0) ]
    /\ Unwrap(Unwrap(report).capture_summary).packets_total = 2
    /\ Unwrap(Unwrap(report).capture_summary).time_start
          = Some(<< 49, 57, 55, 48, 45, 48, 49, 45, 48, 49, 84, 48, 48, 58, 48, 48, 58, 48, 48, 90 >>)
    /\ Unwrap(Unwrap(report).capture_summary).time_end
          = Some(<< 49, 57, 55, 48, 45, 48, 49, 45, 48, 49, 84, 48, 48, 58, 48, 48, 58, 48, 51, 90 >>)

----------------------------------------------------------------------------
(* pcap follow: the watch loop of the command line (liveshark-cli/src/main.rs) *)

\* struct FollowSeen (main.rs, lines 590-594).
FollowSeen(size_bytes, modified) ==
    [ size_bytes |-> size_bytes, modified |-> modified ]

\* A comparison in which a smaller file is no change.
follow_should_analyze_grow_only(current, last) ==
    IF IsNone(last)
    THEN << TRUE, FALSE >>
    ELSE LET prev == Unwrap(last)
         IN  IF current.size_bytes < prev.size_bytes THEN << FALSE, FALSE >>
             ELSE IF current.size_bytes > prev.size_bytes THEN << TRUE, FALSE >>
             ELSE IF IsSome(current.modified) /\ IsSome(prev.modified)
             THEN << Unwrap(current.modified) > Unwrap(prev.modified), FALSE >>
             ELSE << FALSE, FALSE >>

\* follow_should_analyze (main.rs, lines 596-613): (changed, rotated).
follow_should_analyze(current, last) ==
    IF IsNone(last)
    THEN << TRUE, FALSE >>
    ELSE LET prev == Unwrap(last)
         IN  IF current.size_bytes < prev.size_bytes THEN << TRUE, TRUE >>
             ELSE IF current.size_bytes > prev.size_bytes THEN << TRUE, FALSE >>
             ELSE IF IsSome(current.modified) /\ IsSome(prev.modified)
             THEN << Unwrap(current.modified) > Unwrap(prev.modified), FALSE >>
             ELSE << FALSE, FALSE >>

\* What a capture file holds: a complete capture without or with compliance
\* violations, a capture cut in the middle of a block, bytes that are no
\* capture at all.
FollowContents == { "clean", "violating", "truncated", "corrupt" }

\* liveshark_core::analyze_pcap_file on the file (analysis/mod.rs, lines
\* 40-43): a report, or the error of the reader by its message.
analyze_pcap_file(file) ==
    CASE file.content = "truncated" -> Err("unexpected end of file")
      [] file.content = "corrupt" -> Err("invalid block type")
      [] OTHER -> Ok([ content |-> file.content, size_bytes |-> file.size_bytes ])

\* is_transient_error (main.rs, lines 648-651): the message contains
\* "incomplete", "unexpected end" or "eof".
is_transient_error(err) ==
    err \in { "incomplete capture", "unexpected end of file", "eof" }

\* has_violations (main.rs, lines 555-559).
has_violations(rep) == rep.content = "violating"

\* violations_summary (main.rs, lines 568-581).
violations_summary(rep) ==
    IF rep.content = "violating"
    THEN << [ protocol |-> "udp", id |-> "LS-UDP-TOO-SHORT", count |-> 1 ] >>
    ELSE << >>

\* One pass of the loop body of cmd_pcap_follow (main.rs, lines 443-527) on
\* the locals f, the file and the report on disk. `log` is what the pass
\* did: the metadata it read, the value of last_seen it compared them with,
\* whether analyze_pcap_file was called and how it ended, whether the
\* violation summary was printed.
follow_iteration(f, file, on_disk) ==
    LET f1 == [f EXCEPT !.iterations = @ + 1]
    IN  IF IsNone(file)
        THEN [ follow |-> [f1 EXCEPT !.ret = Some(Err("Failed to read input file"))],
               report_file |-> on_disk,
               log |-> [ current |-> None, last |-> f.last_seen, analyzed |-> FALSE,
                         outcome |-> "none", printed |-> FALSE ] ]
        ELSE
        LET meta == Unwrap(file)
            current == FollowSeen(meta.size_bytes, meta.modified)
            decision == follow_should_analyze(current, f.last_seen)
            changed == decision[1]
            rotated == decision[2]
            f2 == [f1 EXCEPT !.last_violations = IF rotated THEN None ELSE @,
                             !.last_seen = Some(current)]
            result == analyze_pcap_file(meta)
        IN  IF ~changed
            THEN [ follow |-> f2, report_file |-> on_disk,
                   log |-> [ current |-> Some(current), last |-> f.last_seen,
                             analyzed |-> FALSE, outcome |-> "none", printed |-> FALSE ] ]
            ELSE IF result.tag = "Ok"
            THEN LET rep == result.value
                     summary == violations_summary(rep)
                     print == /\ f.list_violations
                              /\ ~f.quiet
                              /\ f2.last_violations /= Some(summary)
                     f3 == IF print THEN [f2 EXCEPT !.last_violations = Some(summary)]
                           ELSE f2
                     f4 == IF f.strict /\ has_violations(rep)
                           THEN [f3 EXCEPT !.ret = Some(Err("compliance violations detected"))]
                           ELSE f3
                 IN  [ follow |-> f4, report_file |-> Some(rep),
                       log |-> [ current |-> Some(current), last |-> f.last_seen,
                                 analyzed |-> TRUE, outcome |-> "ok", printed |-> print ] ]
            ELSE IF is_transient_error(result.err)
            THEN [ follow |-> f2, report_file |-> on_disk,
                   log |-> [ current |-> Some(current), last |-> f.last_seen,
                             analyzed |-> TRUE, outcome |-> "transient",
                             printed |-> FALSE ] ]
            ELSE [ follow |-> [f2 EXCEPT !.ret = Some(Err("PCAP/PCAPNG analysis failed"))],
                   report_file |-> on_disk,
                   log |-> [ current |-> Some(current), last |-> f.last_seen,
                             analyzed |-> TRUE, outcome |-> "fatal", printed |-> FALSE ] ]

MaxFollowIterations == 3
MaxFollowWrites == 2
MaxCaptureSize == 1

\* The capture files the scenario puts on disk.
FollowFiles(stamps) ==
    [ size_bytes : 0..MaxCaptureSize, modified : stamps, content : FollowContents ]

\* pcap follow is started on an existing capture, with a --report path.
\* hist is the log of the passes of the loop, clock the time of the file
\* system.
InitFollow ==
    /\ InitLocals
    /\ dmx_ret = << >>
    /\ dmx_calls = << >>
    /\ parse_ret = None
    /\ clock = 0
    /\ hist = << >>
    /\ report_file = None
    /\ \E file \in FollowFiles({ None, Some(0) }) : capture = Some(file)
    /\ \E strict \in BOOLEAN, list_violations \in BOOLEAN :
          follow = [ strict |-> strict, list_violations |-> list_violations,
                     quiet |-> FALSE, max_iterations |-> MaxFollowIterations,
                     last_seen |-> None, last_violations |-> None,
                     iterations |-> 0, ret |-> None ]

\* The loop runs one more pass (lines 443-527).
FollowIteration ==
    /\ IsNone(follow.ret)
    /\ follow.iterations < follow.max_iterations
    /\ LET pass == follow_iteration(follow, capture, report_file)
       IN  /\ follow' = pass.follow
           /\ report_file' = pass.report_file
           /\ hist' = Append(hist, pass.log)
    /\ UNCHANGED <<states, callVars, artnet_stats, loopVars, outVars, clock, capture>>

\* iterations >= max: the loop breaks and the command returns Ok(()).
FollowBreak ==
    /\ IsNone(follow.ret)
    /\ follow.iterations >= follow.max_iterations
    /\ follow' = [follow EXCEPT !.ret = Some(Ok(<< >>))]
    /\ UNCHANGED <<states, callVars, artnet_stats, loopVars, outVars, clock, hist,
                   capture, report_file>>

\* Between two passes the capturing program rewrites the file: any size,
\* any content, a modification time that is the current time of the file
\* system or, on a file system with coarse timestamps, the one it had.
CaptureWritten ==
    /\ IsNone(follow.ret)
    /\ IsSome(capture)
    /\ clock < MaxFollowWrites
    /\ clock' = clock + 1
    /\ \E file \in FollowFiles({ Unwrap(capture).modified, Some(clock + 1) }) :
          capture' = Some(file)
    /\ UNCHANGED <<states, callVars, artnet_stats, loopVars, outVars, hist, follow,
                   report_file>>

\* The capture is removed from the disk.
CaptureRemoved ==
    /\ IsNone(follow.ret)
    /\ IsSome(capture)
    /\ capture' = None
    /\ UNCHANGED <<states, callVars, artnet_stats, loopVars, outVars, clock, hist,
                   follow, report_file>>

NextFollow == FollowIteration \/ FollowBreak \/ CaptureWritten \/ CaptureRemoved

SpecFollow == InitFollow /\ [][NextFollow]_vars

\* The pass the step made, when the step is a pass that read the metadata
\* of the capture.
FollowPassed == hist' /= hist /\ IsSome(hist'[Len(hist')].current)
LastPass == hist'[Len(hist')]

\* The capture differs from what the previous pass saw: first sight, another
\* size, or the same size and a strictly later modification time.
CaptureChanged(current, last) ==
    \/ IsNone(last)
    \/ /\ IsSome(last)
       /\ \/ current.size_bytes /= Unwrap(last).size_bytes
          \/ /\ IsSome(current.modified)
             /\ IsSome(Unwrap(last).modified)
             /\ Unwrap(current.modified) > Unwrap(Unwrap(last).modified)

\* The capture is smaller than at the previous pass.
CaptureRotated(current, last) ==
    IsSome(last) /\ current.size_bytes < Unwrap(last).size_bytes

PassBefore == hist[Len(hist)]

\* C34: a pass whose analysis fails with a transient error does not end the
\* loop, and the next pass calls the analysis again even when the capture
\* is as the failed pass saw it.
C34_TransientErrorRetriedUnchanged ==
    [][/\ (hist' /= hist /\ LastPass.outcome = "transient") => IsNone(follow'.ret)
       /\ (/\ FollowPassed
           /\ Len(hist) > 0
           /\ PassBefore.outcome = "transient"
           /\ LastPass.current = PassBefore.current) => LastPass.analyzed]_vars

----------------------------------------------------------------------------
(* analyze_source over Art-Net and sACN sources that share a universe number *)

MaxSharedPackets == 4

\* Two Art-Net nodes and one sACN component, all on universe 1.
SharedSources ==
    { [ proto |-> "artnet", ip |-> SrcIpA, universe |-> 1 ],
      [ proto |-> "artnet", ip |-> SrcIpB, universe |-> 1 ],
      [ proto |-> "sacn", ip |-> SrcIpA, universe |-> 1 ] }

\* The time between two packets: none, or 1.5 s.
SharedDeltas == { 0, 3 }

\* One frame of one of the sources.
SharedPacket ==
    \E src \in SharedSources, delta \in SharedDeltas :
        LET sequence == Len(hist) + 1
            port == IF src.proto = "artnet" THEN ARTNET_PORT ELSE SACN_PORT
            ts == clock + delta
            payload == IF src.proto = "artnet"
                       THEN build_artnet_payload(sequence, << sequence, 0 >>, src.universe)
                       ELSE build_sacn_payload(sequence, << sequence, 0 >>, src.universe)
        IN  /\ Len(hist) < MaxSharedPackets
            /\ AnalyzePacket(Some(ts), "ETHERNET",
                             build_ipv4_udp_packet(src.ip, SrcIpB, port, port, payload))
            /\ clock' = ts
            /\ hist' = Append(hist, [src |-> src, ts |-> ts])

NextShared == SharedPacket \/ Finalize

SpecShared == InitRun /\ [][NextShared]_vars

\* The frames of hist of a protocol on a universe, and those of one source.
SharedFrames(proto, universe) ==
    { j \in 1..Len(hist) : hist[j].src.proto = proto /\ hist[j].src.universe = universe }
SharedFramesOf(src) == { j \in 1..Len(hist) : hist[j].src = src }

\* The records of the frame log of a universe and a protocol, by source
\* and position.
LogRecords(universe, protocol) ==
    IF universe \notin DOMAIN dmx_store THEN { }
    ELSE { r \in UNION { { << sid, i >> : i \in 1..Len(dmx_store[universe][sid]) } :
                         sid \in DOMAIN dmx_store[universe] } :
           dmx_store[universe][r[1]][r[2]].protocol = protocol }

\* The counters of one protocol agree with each other, with the frame log
\* and with the frames sent.
CountersAgree(stats, proto, protocol) ==
    /\ DOMAIN stats = { u \in {1, 2} : SharedFrames(proto, u) /= { } }
    /\ \A u \in DOMAIN stats :
          LET ids == SetToSeq(DOMAIN stats[u].per_source)
          IN  /\ stats[u].frames = SumSeq([i \in 1..Len(ids) |->
                                              stats[u].per_source[ids[i]].frames])
              /\ stats[u].frames = Cardinality(LogRecords(u, protocol))
              /\ stats[u].frames = Cardinality(SharedFrames(proto, u))
              /\ DOMAIN stats[u].sources = DOMAIN stats[u].per_source
              /\ Cardinality(DOMAIN stats[u].sources)
                    = Cardinality({ x \in SharedSources :
                                      /\ x.proto = proto
                                      /\ x.universe = u
                                      /\ SharedFramesOf(x) /= { } })

\* Every list of the frame log is a prefix of what it is after the step.
LogAppendOnly ==
    \A u \in DOMAIN dmx_store :
        /\ u \in DOMAIN dmx_store'
        /\ \A sid \in DOMAIN dmx_store[u] :
              /\ sid \in DOMAIN dmx_store'[u]
              /\ Len(dmx_store'[u][sid]) >= Len(dmx_store[u][sid])
              /\ SubSeq(dmx_store'[u][sid], 1, Len(dmx_store[u][sid])) = dmx_store[u][sid]

\* C35: after any sequence of packets, for every universe of each protocol
\* the frame counter of the universe is the sum of the frame counters of
\* its sources and the number of records of that universe and protocol in
\* the DMX frame log, the sources map and the per_source map have the same
\* keys, and a step only appends to the frame log.
C35_CountersAndFrameLogAgree ==
    /\ [](/\ CountersAgree(artnet_stats, "artnet", "ArtNet")
          /\ CountersAgree(sacn_stats, "sacn", "Sacn"))
    /\ [][LogAppendOnly]_vars

\* Universe 1 carries two Art-Net frames of two nodes and two sACN frames
\* of one component.
C35_Witness ==
    /\ Len(hist) = 4
    /\ 1 \in DOMAIN artnet_stats /\ 1 \in DOMAIN sacn_stats
    /\ artnet_stats[1].frames = 2
    /\ Cardinality(DOMAIN artnet_stats[1].per_source) = 2
    /\ sacn_stats[1].frames = 2
    /\ Cardinality(DOMAIN sacn_stats[1].per_source) = 1
    /\ Cardinality(LogRecords(1, "ArtNet")) = 2
    /\ Cardinality(LogRecords(1, "Sacn")) = 2
    /\ IsSome(report)

\* The times of the frames of a source, and the overlap of the timespans
\* of two sources that both sent.
SharedTimes(src) == { hist[j].ts : j \in SharedFramesOf(src) }
SharedOverlap(a, b) ==
    IF SharedTimes(a) = { } \/ SharedTimes(b) = { } THEN 0
    ELSE Max(0, Min(SetMax(SharedTimes(a)), SetMax(SharedTimes(b)))
                - Max(SetMin(SharedTimes(a)), SetMin(SharedTimes(b))))

\* The pairs of sources of one protocol whose timespans overlap by more
\* than 1 s.
SharedConflictPairs ==
    { pair \in SUBSET SharedSources :
        /\ Cardinality(pair) = 2
        /\ \A a \in pair, b \in pair :
              /\ a.proto = b.proto
              /\ a.universe = b.universe
              /\ a /= b => SharedOverlap(a, b) > 1 * TICKS_PER_S }

\* The two source keys of a conflict record are of one protocol.
SameProtocol(sources) ==
    \/ \A i \in 1..Len(sources) : StartsWith(sources[i], STR_ARTNET \o CH_COLON)
    \/ \A i \in 1..Len(sources) : StartsWith(sources[i], STR_SACN \o CH_COLON)

\* C39: conflicts are evaluated per protocol: every record of the report
\* pairs two sources of the same protocol, and the report holds one record
\* per pair of sources of one protocol overlapping by more than 1 s, so an
\* Art-Net source and an sACN source of the same universe never conflict.
C39_ConflictsPerProtocol ==
    IsSome(report) =>
        LET cs == Unwrap(report).conflicts
        IN  /\ \A i \in 1..Len(cs) : Len(cs[i].sources) = 2 /\ SameProtocol(cs[i].sources)
            /\ Len(cs) = Cardinality(SharedConflictPairs)

\* The Art-Net node A and the sACN component both emit on universe 1 from
\* 0 s to 1.5 s; the report has no conflict.
C39_Witness ==
    /\ IsSome(report)
    /\ Len(hist) = 4
    /\ [i \in 1..4 |-> << hist[i].src.proto, hist[i].src.ip, hist[i].ts >>]
          = << << "artnet", SrcIpA, 0 >>, << "sacn", SrcIpA, 0 >>,
               << "artnet", SrcIpA, 3 >>, << "sacn", SrcIpA, 3 >> >>
    /\ 1 \in DOMAIN artnet_stats /\ 1 \in DOMAIN sacn_stats
    /\ Unwrap(report).conflicts = << >>

----------------------------------------------------------------------------
(* The loss metrics of a universe summary, one against the other *)

\* C38: whenever the loss metrics of a universe are reported, max_burst_len
\* and burst_count are at most loss_packets, and burst_count is 0 exactly
\* when loss_packets is 0.
C38_LossMetricsConsistent ==
    (hist /= << >> /\ IsSome(SeqMetrics.loss_packets)) =>
        LET loss_packets == Unwrap(SeqMetrics.loss_packets)
            burst_count == Unwrap(SeqMetrics.burst_count)
            max_burst_len == Unwrap(SeqMetrics.max_burst_len)
        IN  /\ max_burst_len <= loss_packets
            /\ burst_count <= loss_packets
            /\ burst_count = 0 <=> loss_packets = 0

----------------------------------------------------------------------------
(* A source whose sequence number wraps, read through the decoders *)

MaxWrapFrames == 4

\* The sequence number of the first frame of the capture.
WrapStarts == { 252, 253, 254, 255 }
WrapProtocols == { "artnet", "sacn" }
WrapDeltas == { 1, 2 }

\* The sequence number after `last`: the next one modulo 256; after 255
\* the counter of the source restarts at 0 or, 0 standing for "no sequence
\* number" in ArtDMX, at 1.
WrapSuccessors(last) == IF last = 255 THEN { 0, 1 } ELSE { last + 1 }

\* The next frame of the source: no frame is missing.
WrapPacket ==
    /\ Len(hist) < MaxWrapFrames
    /\ \E proto \in WrapProtocols, sequence \in 0..255, delta \in WrapDeltas :
          LET port == IF proto = "artnet" THEN ARTNET_PORT ELSE SACN_PORT
              ts == IF hist = << >> THEN 0 ELSE clock + delta
              payload == IF proto = "artnet"
                         THEN build_artnet_payload(sequence, << sequence, 0 >>, 1)
                         ELSE build_sacn_payload(sequence, << sequence, 0 >>, 1)
          IN  /\ IF hist = << >>
                 THEN sequence \in WrapStarts
                 ELSE /\ proto = hist[1].proto
                      /\ sequence \in WrapSuccessors(hist[Len(hist)].sequence)
              /\ AnalyzePacket(Some(ts), "ETHERNET",
                               build_ipv4_udp_packet(SrcIpA, SrcIpB, port, port, payload))
              /\ clock' = ts
              /\ hist' = Append(hist, [proto |-> proto, sequence |-> sequence, ts |-> ts])

NextWrap == WrapPacket \/ Finalize

SpecWrap == InitRun /\ [][NextWrap]_vars

\* C36: a source that sends every sequence number in order modulo 256,
\* across the wrap from 255 to 0 or to 1 as well, is reported without
\* loss: loss_packets = 0 and burst_count = 0 whenever they are reported.
C36_InOrderSourceHasNoLoss ==
    IsSome(report) =>
        \A i \in 1..Len(Unwrap(report).universes) :
            LET u == Unwrap(report).universes[i]
            IN  /\ IsSome(u.loss_packets) => u.loss_packets = Some(0)
                /\ IsSome(u.burst_count) => u.burst_count = Some(0)

----------------------------------------------------------------------------
(* One source whose frames all arrive, two consecutive ones swapped *)

MaxSwapFrames == 5

\* The time between two arrivals, in ticks.
SwapDeltas == { 1, 2 }

\* The source sends the sequence numbers 1, 2, 3, ... The sequence numbers
\* that have arrived, the highest of them, and the one that was overtaken
\* and is still to arrive.
SwapArrived == { hist[j].sequence : j \in 1..Len(hist) }
SwapTop == IF hist = << >> THEN 0 ELSE SetMax(SwapArrived)
SwapOvertaken == { s \in 1..SwapTop : s \notin SwapArrived }

\* The position of the frame that arrived one place early, if any.
SwapEarly == { j \in 1..Len(hist) : hist[j].sequence = j + 1 }

\* One add_artnet_frame call for the next arrival: the overtaken frame if
\* there is one, else the next frame of the source or, when no swap has
\* happened yet, the one after it.
AddSwappedFrame ==
    /\ Len(hist) < MaxSwapFrames
    /\ \E seq \in 1..(MaxSwapFrames + 1), delta \in SwapDeltas :
          LET ts == IF hist = << >> THEN 0 ELSE clock + delta
          IN  /\ IF SwapOvertaken /= { } THEN seq \in SwapOvertaken
                 ELSE IF SwapEarly /= { } THEN seq = SwapTop + 1
                 ELSE seq \in { SwapTop + 1, SwapTop + 2 }
              /\ artnet_stats' = add_artnet_frame(artnet_stats, 1, SrcIpA,
                                     ARTNET_PORT, Some(seq), Some(ts))
              /\ clock' = ts
              /\ hist' = Append(hist, [sequence |-> seq, ts |-> ts])
    /\ UNCHANGED <<followVars, states, callVars, loopVars, outVars>>

NextSwap == AddSwappedFrame

SpecSwap == InitSeq /\ [][NextSwap]_vars

SwapMetrics == compute_metrics(artnet_stats[1].per_source)

\* The losses counted around a swap: one when the early frame arrives
\* after an earlier frame, one when the frame after the pair arrives.
SwapLoss ==
    IF SwapEarly = { } THEN 0
    ELSE LET p == CHOOSE j \in SwapEarly : TRUE
         IN  (IF p > 1 THEN 1 ELSE 0) + (IF Len(hist) >= p + 2 THEN 1 ELSE 0)

\* C37 as stated: with two consecutive frames swapped and no frame
\* missing, loss_packets stays 0 and no burst is opened.
C37_SwapCountsNoLoss ==
    Len(hist) >= 2 =>
        /\ SwapMetrics.loss_packets = Some(0)
        /\ SwapMetrics.burst_count = Some(0)

\* C37: with two consecutive frames swapped and no frame missing, the
\* frame that arrives late counts no loss and closes the burst, but the
\* frame that arrives early is counted as one lost frame and so is the
\* frame after the pair, each in a burst of its own: for 1, 2, 4, 3, 5
\* loss_packets = 2, burst_count = 2 and max_burst_len = 1.
C37_SwapCountsForwardJumps ==
    Len(hist) >= 2 =>
        /\ SwapMetrics.loss_packets = Some(SwapLoss)
        /\ SwapMetrics.burst_count = Some(SwapLoss)
        /\ SwapMetrics.max_burst_len = Some(IF SwapLoss > 0 THEN 1 ELSE 0)

\* Sequences 1, 2, 4, 3, 5: two lost frames reported, in two bursts.
C37_Witness ==
    /\ [i \in 1..Len(hist) |-> hist[i].sequence] = << 1, 2, 4, 3, 5 >>
    /\ SwapMetrics.loss_packets = Some(2)
    /\ SwapMetrics.burst_count = Some(2)
    /\ SwapMetrics.max_burst_len = Some(1)
====
